---- MODULE Spec2Model ----
(***************************************************************************)
(* Verification model of the hummingbird parser front end.                 *)
(*                                                                         *)
(* The repository holds two parsers:                                       *)
(*   - the hand-written recursive-descent parser (src/src/Parser.cpp),     *)
(*     modelled by specification Spec;                                     *)
(*   - the generated LALR(1) parser with its driver and node model         *)
(*     (src/src/Parser/Parser.cpp, Driver.cpp, Nodes.cpp), modelled by     *)
(*     specification SpecLALR.                                             *)
(* The token source (the flex lexer) is external to both: it is modelled   *)
(* as an oracle that hands out one token per yylex()/lex() call.           *)
(***************************************************************************)
EXTENDS Integers, Sequences, FiniteSets, TLC

VARIABLES
  lexed,         \* tokens the lexer has returned so far (its YYText is the last one's)
  peeking,       \* Parser::peeking
  currentToken,  \* Parser::currentToken
  currentText,   \* Parser::currentText  (a pointer into the lexer's text buffer)
  peekedToken,   \* Parser::peekedToken
  peekedText,    \* Parser::peekedText   (a pointer into the lexer's text buffer)
  pc,            \* the function segment the recursive-descent parser is in
  stack,         \* its call stack: resume label and saved locals of each caller
  token,         \* the `token` argument of the running function
  lhs,           \* the local `lhs` of the running function
  retval,        \* the node the last returning function returned
  root,          \* PRoot::nodes of the root under construction
  err,           \* the diagnostic written to std::cerr before exit(1)
  label,         \* the label yy::parser::parse is at (or the Driver::parse line)
  yystack_,      \* yy::parser::yystack_: states with their semantic values
  yyla,          \* the lookahead symbol of yy::parser::parse
  yyn,           \* the rule yyreduce is about to reduce by
  yynerrs_,      \* yy::parser::parse's count of reported errors
  yyerrstatus_,  \* tokens left to shift before errors are reported again
  yyresult,      \* the return value of yy::parser::parse
  errors,        \* the messages handed to yy::parser::error
  driverRoot,    \* Driver::root
  newRoots,      \* the PRoot objects `new PRoot` created during this parse
  returned,      \* what Driver::parse handed to its caller
  memory,        \* the PNode objects made by `new`, and who holds a pointer to each
  printed,       \* the debugPrint calls made on the finished root, with their output
  calls          \* the next()/peek() calls a client of the look-ahead made, with results

rdvars == <<peeking, currentToken, currentText, peekedToken, peekedText,
            pc, stack, token, lhs, retval, root>>

lalrvars == <<label, yystack_, yyla, yyn, yynerrs_, yyerrstatus_, yyresult, errors,
              driverRoot, newRoots, returned, memory>>

obsvars == <<printed, calls>>

vars == <<lexed, err, rdvars, lalrvars, obsvars>>

-----------------------------------------------------------------------------
(* Bounds of the model *)

\* Every token stream of at most MaxTokens tokens before end-of-input is an input.
MaxTokens == 3

\* A finished root is serialized at most MaxPrints times, at an indentation
\* level of at most MaxIndent.
MaxPrints == 2

MaxIndent == 1

\* A client of the look-ahead makes at most MaxCalls calls of next() and peek().
MaxCalls == 5

-----------------------------------------------------------------------------
(* Tokens: src/src/Parser/Lexer.h *)

Tok(kind, text) == [kind |-> kind, text |-> text]

EofTok    == Tok("T_EOF", <<>>)
EqualsTok == Tok("T_EQUALS", <<"=">>)
PlusTok   == Tok("T_PLUS", <<"+">>)
StarTok   == Tok("T_STAR", <<"*">>)
LetTok    == Tok("T_LET", <<"l", "e", "t">>)
VarTok    == Tok("T_VAR", <<"v", "a", "r">>)
ParenLeftTok == Tok("T_PAREN_LEFT", <<"(">>)

\* LLONG_MAX = 2^63 - 1
LLONG_MAX_DIGITS ==
  <<"9", "2", "2", "3", "3", "7", "2", "0", "3", "6", "8", "5", "4", "7", "7", "5",
    "8", "0", "7">>

\* Lexemes of the identifiers and integer literals the inputs are built from.
\* The wide literals are LLONG_MAX, LLONG_MAX with a leading zero, LLONG_MAX + 1
\* and 10 * LLONG_MAX; they occur only where a pattern puts them.
IdentTexts == {<<"a">>, <<"b">>}
ShortIntTexts == {<<"7">>, <<"0", "1", "2">>}
WideIntTexts ==
  { LLONG_MAX_DIGITS,
    <<"0">> \o LLONG_MAX_DIGITS,
    SubSeq(LLONG_MAX_DIGITS, 1, 18) \o <<"8">>,
    LLONG_MAX_DIGITS \o <<"0">> }
IntTexts == ShortIntTexts \cup WideIntTexts

IdentToks == {Tok("T_IDENTIFIER", t) : t \in IdentTexts}
ShortIntToks == {Tok("T_INTEGER", t) : t \in ShortIntTexts}
WideIntToks == {Tok("T_INTEGER", t) : t \in WideIntTexts}
IntToks   == ShortIntToks \cup WideIntToks
OperandToks == IdentToks \cup IntToks
InfixToks == {PlusTok, StarTok}

\* The operands the exhaustive part of the inputs is built from.
ShortOperandToks == IdentToks \cup ShortIntToks

Alphabet == ShortOperandToks \cup InfixToks
              \cup {EofTok, EqualsTok, LetTok, VarTok, ParenLeftTok}

\* Longer inputs, beyond MaxTokens: each pattern is a sequence of token sets,
\* and every stream that picks one token per position, and ends at any
\* position from MaxTokens on, is an input.
Patterns ==
  { <<ShortOperandToks, InfixToks, IdentToks, {EqualsTok}, ShortOperandToks, InfixToks,
      ShortOperandToks>>,
    <<ShortOperandToks, InfixToks, ShortOperandToks, InfixToks, ShortOperandToks,
      InfixToks, {Tok("T_IDENTIFIER", <<"a">>)}>>,
    <<{LetTok, VarTok}, IdentToks, {EqualsTok}, ShortIntToks, InfixToks, ShortIntToks,
      InfixToks, {Tok("T_INTEGER", <<"7">>), Tok("T_IDENTIFIER", <<"b">>)}>>,
    <<IdentToks, {EqualsTok}, ShortOperandToks, InfixToks, ShortOperandToks>>,
    <<ShortOperandToks, {LetTok, VarTok}, IdentToks, {EqualsTok}, ShortOperandToks,
      ShortOperandToks>>,
    <<{LetTok}, {Tok("T_IDENTIFIER", <<"a">>)}, {EqualsTok}, WideIntToks, {PlusTok},
      WideIntToks>>,
    <<{Tok("T_IDENTIFIER", <<"b">>)}, {StarTok}, WideIntToks>>,
    <<IdentToks, {StarTok}, ShortIntToks, {EqualsTok}, ShortOperandToks>> }

Matches(p, ts) ==
  /\ Len(ts) <= Len(p)
  /\ \A i \in 1..Len(ts) : ts[i] \in p[i]

\* What the next call of the lexer may return after it returned `ts`: flex
\* keeps returning end-of-input once the input is exhausted.
LexChoicesOf(ts, alphabet, patterns, eof) ==
  IF ts # <<>> /\ ts[Len(ts)] = eof
  THEN {eof}
  ELSE (IF Len(ts) < MaxTokens THEN alphabet ELSE {eof})
         \cup UNION { IF Len(ts) < Len(p) /\ Matches(p, ts) THEN p[Len(ts) + 1] ELSE {}
                      : p \in patterns }

LexChoices(ts) == LexChoicesOf(ts, Alphabet, Patterns, EofTok)

-----------------------------------------------------------------------------
(* AST nodes: src/src/Parser/Parser.h.  A string field and a node field never
   share a record field name, so PLet/PVar keep their string in `name` and
   PIntegerLiteral keeps its number in `number`. *)

PLet(name, rhs)        == [kind |-> "PLet", name |-> name, rhs |-> rhs]
PVar(name, rhs)        == [kind |-> "PVar", name |-> name, rhs |-> rhs]
PAssignment(l, r)      == [kind |-> "PAssignment", lhs |-> l, rhs |-> r]
PInfix(l, op, r)       == [kind |-> "PInfix", lhs |-> l, op |-> op, rhs |-> r]
PIdentifier(value)     == [kind |-> "PIdentifier", value |-> value]
PIntegerLiteral(n)     == [kind |-> "PIntegerLiteral", number |-> n]
PUnknown               == [kind |-> "PUnknown"]

isUnknown(node) == node.kind = "PUnknown"

NoNode == [kind |-> "none"]
NoErr  == [msg |-> "none"]

-----------------------------------------------------------------------------
(* std::stoll on a decimal lexeme.  A long long is written as its canonical
   decimal digits (no leading zero), so that every 64-bit value has a
   representation. *)

DigitVal(c) ==
  CASE c = "0" -> 0 [] c = "1" -> 1 [] c = "2" -> 2 [] c = "3" -> 3 [] c = "4" -> 4
    [] c = "5" -> 5 [] c = "6" -> 6 [] c = "7" -> 7 [] c = "8" -> 8 [] c = "9" -> 9

RECURSIVE StripZeros(_)
StripZeros(s) ==
  IF Len(s) > 1 /\ s[1] = "0" THEN StripZeros(Tail(s)) ELSE s

\* Digit strings of equal length compare as their numbers do, digit by digit.
RECURSIVE DigitsLeq(_, _)
DigitsLeq(s, t) ==
  IF s = <<>> THEN TRUE
  ELSE IF DigitVal(s[1]) # DigitVal(t[1]) THEN DigitVal(s[1]) < DigitVal(t[1])
  ELSE DigitsLeq(Tail(s), Tail(t))

FitsLongLong(d) ==
  \/ Len(d) < Len(LLONG_MAX_DIGITS)
  \/ Len(d) = Len(LLONG_MAX_DIGITS) /\ DigitsLeq(d, LLONG_MAX_DIGITS)

\* A conversion that saturates at LLONG_MAX instead of throwing, as strtoll does.
stoll_Saturating(s) ==
  LET d == StripZeros(s)
  IN  [ok |-> TRUE, value |-> IF FitsLongLong(d) THEN d ELSE LLONG_MAX_DIGITS]

\* stoll throws std::out_of_range when the value does not fit a long long.
stoll(s) ==
  LET d == StripZeros(s)
  IN  IF FitsLongLong(d)
      THEN [ok |-> TRUE, value |-> d]
      ELSE [ok |-> FALSE, value |-> <<>>]

-----------------------------------------------------------------------------
(* Look-ahead: Parser::next, Parser::text, Parser::peek, Parser::expect.
   A look-ahead state L holds the five look-ahead fields and the lexer's
   history; `lx` is the token the lexer returns if yylex() is called. *)

LA == [lexed |-> lexed, peeking |-> peeking,
       currentToken |-> currentToken, currentText |-> currentText,
       peekedToken |-> peekedToken, peekedText |-> peekedText]

\* lexer->yylex(): the lexer moves on; YYText() now points at the new lexeme.
yylex(L, lx) == [L EXCEPT !.lexed = Append(L.lexed, lx)]

\* lexer->YYText() as a pointer: the index of the lexeme the buffer holds.
YYText(L) == Len(L.lexed)

\* The strings a text pointer may read as: the lexeme it was taken from while
\* the lexer has not moved on, anything once the buffer was overwritten.
Deref(L, ptr) ==
  IF ptr = Len(L.lexed) /\ ptr > 0
  THEN {L.lexed[ptr].text}
  ELSE IdentTexts \cup IntTexts \cup {<<>>}

\* next() that reads the lexer even while a peeked token is buffered.
next_Unbuffered(L, lx) ==
  [L |-> [yylex(L, lx) EXCEPT !.currentToken = lx.kind, !.peeking = FALSE],
   ret |-> lx.kind]

\* next() that hands out the buffered token without emptying the buffer.
next_Sticky(L, lx) ==
  IF L.peeking
  THEN [L |-> [L EXCEPT !.currentToken = L.peekedToken,
                        !.currentText = L.peekedText],
        ret |-> L.peekedToken]
  ELSE [L |-> [yylex(L, lx) EXCEPT !.currentToken = lx.kind],
        ret |-> lx.kind]

next(L, lx) ==
  IF L.peeking
  THEN [L |-> [L EXCEPT !.currentToken = L.peekedToken,
                        !.currentText = L.peekedText,
                        !.peeking = FALSE],
        ret |-> L.peekedToken]
  ELSE [L |-> [yylex(L, lx) EXCEPT !.currentToken = lx.kind],
        ret |-> lx.kind]

\* text() that always reads the saved pointer currentText.
text_Saved(L) == Deref(L, L.currentText)

text(L) ==
  IF L.peeking
  THEN Deref(L, L.currentText)
  ELSE Deref(L, YYText(L))

\* peek() that reads the lexer on every call.
peek_Unbuffered(L, lx) ==
  [L |-> [yylex(L, lx) EXCEPT !.peeking = TRUE,
                              !.peekedToken = lx.kind,
                              !.peekedText = Len(L.lexed) + 1],
   ret |-> lx.kind]

peek(L, lx) ==
  IF ~L.peeking
  THEN [L |-> [yylex(L, lx) EXCEPT !.peeking = TRUE,
                                   !.peekedToken = lx.kind,
                                   !.peekedText = Len(L.lexed) + 1],
        ret |-> lx.kind]
  ELSE [L |-> L, ret |-> L.peekedToken]

\* lexer->lineno(): the line the lexer stands on.  The inputs are laid out one
\* token per line, the end of input on a line of its own, so the lexer stands
\* on the line of the token it read last.
lineno(L) == Len(L.lexed)

\* expect() that reports a wrong token and carries on.
expect_Lenient(L, expected, lx) ==
  LET r == next(L, lx)
  IN  [L |-> r.L, ok |-> TRUE, ret |-> r.ret,
       err |-> [msg |-> "Unexpected token", expected |-> expected, got |-> r.ret,
                line |-> lineno(r.L)]]

expect(L, expected, lx) ==
  LET r == next(L, lx)
  IN  [L |-> r.L, ok |-> r.ret = expected, ret |-> r.ret,
       err |-> [msg |-> "Unexpected token", expected |-> expected, got |-> r.ret,
                line |-> lineno(r.L)]]

fatalNodeError(L, node) == [msg |-> "Unmatched node", line |-> lineno(L)]

fatalTokenError(L, t) ==
  [msg |-> "Unrecognized token", got |-> t, line |-> lineno(L)]

-----------------------------------------------------------------------------
(* Plumbing of the actions *)

SetLA(L) ==
  /\ lexed' = L.lexed
  /\ peeking' = L.peeking
  /\ currentToken' = L.currentToken
  /\ currentText' = L.currentText
  /\ peekedToken' = L.peekedToken
  /\ peekedText' = L.peekedText

KeepLA == UNCHANGED <<lexed, peeking, currentToken, currentText, peekedToken, peekedText>>

Frame(k, l) == [k |-> k, lhs |-> l]

\* Call `callee` with argument `tok`; resume at `k` with the local `l` kept.
Call(callee, tok, k, l) ==
  /\ stack' = Append(stack, Frame(k, l))
  /\ pc' = callee
  /\ token' = tok
  /\ lhs' = NoNode
  /\ retval' = NoNode

\* `return callee(tok)`: the callee returns to this function's caller.
TailCall(callee, tok) ==
  /\ pc' = callee
  /\ token' = tok
  /\ UNCHANGED <<stack, lhs, retval>>

Return(node) ==
  /\ pc' = stack[Len(stack)].k
  /\ lhs' = stack[Len(stack)].lhs
  /\ stack' = SubSeq(stack, 1, Len(stack) - 1)
  /\ retval' = node
  /\ UNCHANGED token

\* exit(1) after the diagnostic `e`.
Exit(e) ==
  /\ pc' = "exit"
  /\ err' = e
  /\ UNCHANGED <<stack, token, lhs, retval, root>>

Goto(l) ==
  /\ pc' = l
  /\ UNCHANGED <<stack, token, lhs, retval>>

-----------------------------------------------------------------------------
(* The recursive-descent parser: src/src/Parser.cpp *)

\* A pointer that refers to no Root: unset, null, or arbitrary.
Pointer(what) == [ptr |-> what]

\* Driver::root as Driver::Driver leaves it.
Unset == Pointer("uninitialized")

(* Pointers to nodes.  A PNode made by `new PNode(...)` is a cell: the node it
   holds, the PNode* members of that node (`kids`), and the number of times it
   was deleted.  Its address is its position in `cells`.  `held` runs parallel
   to yystack_ and gives, for each semantic value, the node pointers it
   holds: one for a PNode*, any number for a std::vector<PNode*>, none for a
   string.  `root` is the vector of the PRoot that Driver::root points to. *)

Cell(node, kids) == [node |-> node, kids |-> kids, deleted |-> 0]

NoMemory == [cells |-> <<>>, held |-> <<>>, root |-> <<>>]

\* The generated parser and its driver, before Driver::parse is called.
LALRIdle ==
  /\ label = "idle"
  /\ yystack_ = <<>>
  /\ yyla = [type |-> -2]
  /\ yyn = 0
  /\ yynerrs_ = 0
  /\ yyerrstatus_ = 0
  /\ yyresult = -1
  /\ errors = <<>>
  /\ driverRoot = Unset
  /\ newRoots = <<>>
  /\ returned = Pointer("nothing")
  /\ memory = NoMemory

\* Nothing has been printed, and no client has called the look-ahead.
NoObservations == printed = <<>> /\ calls = <<>>

Init ==
  /\ LALRIdle
  /\ NoObservations
  /\ lexed = <<>>
  /\ peeking = FALSE
  /\ currentToken = "uninitialized"
  /\ currentText = 0
  /\ peekedToken = "uninitialized"
  /\ peekedText = 0
  /\ pc = "parseRoot"
  /\ stack = <<>>
  /\ token = "none"
  /\ lhs = NoNode
  /\ retval = NoNode
  /\ root = <<>>
  /\ err = NoErr

\* The recursive-descent parser is at `l`; the generated parser is not running.
At(l) == pc = l /\ UNCHANGED <<lalrvars, obsvars>>

\* parseRoot, the head of the loop: auto token = next(); switch (token)
parseRoot ==
  /\ At("parseRoot")
  /\ \E lx \in LexChoices(lexed) :
       LET r == next(LA, lx)
       IN  /\ SetLA(r.L)
           /\ IF r.ret = "T_EOF"
              THEN /\ pc' = "returned"
                   /\ UNCHANGED <<stack, token, lhs, retval>>
              ELSE Call("parseStatement", r.ret, "parseRoot_1", NoNode)
  /\ UNCHANGED <<root, err>>

\* parseRoot keeping only the last statement.
parseRoot_1_Last ==
  /\ At("parseRoot_1")
  /\ KeepLA
  /\ IF isUnknown(retval)
     THEN Exit(fatalNodeError(LA, retval))
     ELSE /\ root' = <<retval>>
          /\ Goto("parseRoot")
          /\ UNCHANGED err

\* parseRoot, after parseStatement returned: the Unknown check and push_back
parseRoot_1 ==
  /\ At("parseRoot_1")
  /\ KeepLA
  /\ IF isUnknown(retval)
     THEN Exit(fatalNodeError(LA, retval))
     ELSE /\ root' = Append(root, retval)
          /\ Goto("parseRoot")
          /\ UNCHANGED err

parseStatement ==
  /\ At("parseStatement")
  /\ KeepLA
  /\ CASE token = "T_LET" -> TailCall("parseLet", token)
       [] token = "T_VAR" -> TailCall("parseVar", token)
       [] OTHER -> TailCall("parseExpression", token)
  /\ UNCHANGED <<root, err>>

\* parseExpression calling itself instead of parseAddition.
parseExpression_Self ==
  /\ At("parseExpression")
  /\ KeepLA
  /\ TailCall("parseExpression", token)
  /\ UNCHANGED <<root, err>>

parseExpression ==
  /\ At("parseExpression")
  /\ KeepLA
  /\ TailCall("parseAddition", token)
  /\ UNCHANGED <<root, err>>

\* parseAddition: auto lhs = parseMultiplication(token);
parseAddition ==
  /\ At("parseAddition")
  /\ KeepLA
  /\ Call("parseMultiplication", token, "parseAddition_1", NoNode)
  /\ UNCHANGED <<root, err>>

\* The segment of parseAddition/parseMultiplication/parseAssignment after the
\* operand returned: auto nextToken = peek(); if (nextToken == op) expect(op);
\* otherwise return lhs.
AfterOperand(op, resume) ==
  \E lx1 \in LexChoices(lexed) :
    LET p == peek(LA, lx1)
    IN  IF p.ret = op
        THEN \E lx2 \in LexChoices(p.L.lexed) :
               LET e == expect(p.L, op, lx2)
               IN  /\ SetLA(e.L)
                   /\ IF e.ok
                      THEN /\ pc' = resume
                           /\ lhs' = retval
                           /\ UNCHANGED <<stack, token, retval, root, err>>
                      ELSE Exit(e.err)
        ELSE /\ SetLA(p.L)
             /\ Return(retval)
             /\ UNCHANGED <<root, err>>

\* The right operand: auto rhs = callee(next());
RightOperand(callee, resume) ==
  /\ \E lx \in LexChoices(lexed) :
       LET r == next(LA, lx)
       IN  /\ SetLA(r.L)
           /\ Call(callee, r.ret, resume, lhs)
  /\ UNCHANGED <<root, err>>

\* return new PNode(...);
ReturnNode(node) ==
  /\ KeepLA
  /\ Return(node)
  /\ UNCHANGED <<root, err>>

parseAddition_1 == At("parseAddition_1") /\ AfterOperand("T_PLUS", "parseAddition_2")

parseAddition_2 == At("parseAddition_2") /\ RightOperand("parseAddition", "parseAddition_3")

\* parseAddition with the operands of the Infix exchanged.
parseAddition_3_Swapped ==
  At("parseAddition_3") /\ ReturnNode(PInfix(retval, "ADD", lhs))

parseAddition_3 == At("parseAddition_3") /\ ReturnNode(PInfix(lhs, "ADD", retval))

\* parseMultiplication: auto lhs = parseLiteral(token);
parseMultiplication ==
  /\ At("parseMultiplication")
  /\ KeepLA
  /\ Call("parseLiteral", token, "parseMultiplication_1", NoNode)
  /\ UNCHANGED <<root, err>>

parseMultiplication_1 ==
  At("parseMultiplication_1") /\ AfterOperand("T_STAR", "parseMultiplication_2")

\* parseMultiplication taking a whole addition as its right operand.
parseMultiplication_2_Addition ==
  At("parseMultiplication_2") /\ RightOperand("parseAddition", "parseMultiplication_3")

\* parseMultiplication taking a whole expression as its right operand.
parseMultiplication_2_Expression ==
  At("parseMultiplication_2") /\ RightOperand("parseExpression", "parseMultiplication_3")

parseMultiplication_2 ==
  At("parseMultiplication_2")
    /\ RightOperand("parseMultiplication", "parseMultiplication_3")

parseMultiplication_3 ==
  At("parseMultiplication_3") /\ ReturnNode(PInfix(lhs, "MULTIPLY", retval))

\* An uncaught std::out_of_range ends the process in std::terminate.
parseLiteral ==
  /\ At("parseLiteral")
  /\ KeepLA
  /\ IF token = "T_INTEGER"
     THEN \E s \in text(LA) :
            LET value == stoll(s)
            IN  IF value.ok
                THEN Return(PIntegerLiteral(value.value)) /\ UNCHANGED <<root, err>>
                ELSE Exit([msg |-> "std::out_of_range"])
     ELSE TailCall("parseAssignment", token) /\ UNCHANGED <<root, err>>

\* parseAssignment: auto lhs = parseIdentifier(token);
parseAssignment ==
  /\ At("parseAssignment")
  /\ KeepLA
  /\ Call("parseIdentifier", token, "parseAssignment_1", NoNode)
  /\ UNCHANGED <<root, err>>

parseAssignment_1 ==
  At("parseAssignment_1") /\ AfterOperand("T_EQUALS", "parseAssignment_2")

\* parseAssignment taking a single operand as the assigned value.
parseAssignment_2_Operand ==
  At("parseAssignment_2") /\ RightOperand("parseLiteral", "parseAssignment_3")

parseAssignment_2 ==
  At("parseAssignment_2") /\ RightOperand("parseExpression", "parseAssignment_3")

parseAssignment_3 ==
  At("parseAssignment_3") /\ ReturnNode(PAssignment(lhs, retval))

\* parseIdentifier as if fatalTokenError returned: `return new PNode()`.
parseIdentifier_Unknown ==
  /\ At("parseIdentifier")
  /\ KeepLA
  /\ IF token = "T_IDENTIFIER"
     THEN \E s \in text(LA) : Return(PIdentifier(s)) /\ UNCHANGED <<root, err>>
     ELSE Return(PUnknown) /\ UNCHANGED <<root, err>>

\* parseIdentifier reporting a wrong token the way expect(T_IDENTIFIER) does.
parseIdentifier_Expect ==
  /\ At("parseIdentifier")
  /\ KeepLA
  /\ IF token = "T_IDENTIFIER"
     THEN \E s \in text(LA) : Return(PIdentifier(s)) /\ UNCHANGED <<root, err>>
     ELSE Exit([msg |-> "Unexpected token", expected |-> "T_IDENTIFIER",
                got |-> token, line |-> lineno(LA)])

\* fatalTokenError exits, so `return new PNode()` is never reached.
parseIdentifier ==
  /\ At("parseIdentifier")
  /\ KeepLA
  /\ IF token = "T_IDENTIFIER"
     THEN \E s \in text(LA) : Return(PIdentifier(s)) /\ UNCHANGED <<root, err>>
     ELSE Exit(fatalTokenError(LA, token))

\* The string local `lhs` of parseLet/parseVar.
StringLocal(s) == [kind |-> "string", value |-> s]

\* parseLet/parseVar: expect(T_IDENTIFIER); auto lhs = text();
BindingName(resume) ==
  \E lx \in LexChoices(lexed) :
    LET e == expect(LA, "T_IDENTIFIER", lx)
    IN  /\ SetLA(e.L)
        /\ IF e.ok
           THEN \E s \in text(e.L) :
                  /\ pc' = resume
                  /\ lhs' = StringLocal(s)
                  /\ UNCHANGED <<stack, token, retval, root, err>>
           ELSE Exit(e.err)

\* parseLet/parseVar: expect(T_EQUALS);
BindingEquals(resume) ==
  \E lx \in LexChoices(lexed) :
    LET e == expect(LA, "T_EQUALS", lx)
    IN  /\ SetLA(e.L)
        /\ IF e.ok
           THEN Goto(resume) /\ UNCHANGED <<root, err>>
           ELSE Exit(e.err)

parseLet == At("parseLet") /\ BindingName("parseLet_1")

parseLet_1 == At("parseLet_1") /\ BindingEquals("parseLet_2")

parseLet_2 == At("parseLet_2") /\ RightOperand("parseExpression", "parseLet_3")

parseLet_3 == At("parseLet_3") /\ ReturnNode(PLet(lhs.value, retval))

parseVar == At("parseVar") /\ BindingName("parseVar_1")

parseVar_1 == At("parseVar_1") /\ BindingEquals("parseVar_2")

parseVar_2 == At("parseVar_2") /\ RightOperand("parseExpression", "parseVar_3")

\* parseVar building the node of parseLet.
parseVar_3_Let == At("parseVar_3") /\ ReturnNode(PLet(lhs.value, retval))

parseVar_3 == At("parseVar_3") /\ ReturnNode(PVar(lhs.value, retval))

(* Debug serialization of the recursive-descent parser's nodes:
   src/src/Parser.cpp, lines 171-251.  The output is a sequence of lines, each
   the number of spaces written by printIndent and the pieces written after
   them; std::endl ends every line. *)

Line(spaces, pieces) == [spaces |-> spaces, text |-> pieces]

\* printIndent << pieces << std::endl
printIndent(indent, pieces) == Line(indent * 2, pieces)

\* PInfix::debugPrint: char opChar = '_'; switch (op)
opChar(op) ==
  CASE op = "ADD" -> "+"
    [] op = "MULTIPLY" -> "*"
    [] OTHER -> "_"

\* PNode::debugPrint with the debugPrint of the variant it holds; a variant
\* without a DEBUG_PRINT_IF line writes nothing.
RECURSIVE debugPrint(_, _)
debugPrint(node, indent) ==
  CASE node.kind = "PAssignment" ->
         <<printIndent(indent, <<"assignment(">>)>>
           \o debugPrint(node.lhs, indent + 1)
           \o <<printIndent(indent + 1, <<"=">>)>>
           \o debugPrint(node.rhs, indent + 1)
           \o <<printIndent(indent, <<")">>)>>
    [] node.kind = "PIdentifier" ->
         <<printIndent(indent, <<"identifier(">> \o node.value \o <<")">>)>>
    [] node.kind = "PInfix" ->
         <<printIndent(indent, <<"infix(">>)>>
           \o debugPrint(node.lhs, indent + 1)
           \o <<printIndent(indent + 1, <<opChar(node.op)>>)>>
           \o debugPrint(node.rhs, indent + 1)
           \o <<printIndent(indent, <<")">>)>>
    [] node.kind = "PIntegerLiteral" ->
         <<printIndent(indent, <<"integerLiteral(">> \o node.number \o <<")">>)>>
    [] node.kind = "PLet" ->
         <<printIndent(indent, <<"let(">>),
           printIndent(indent + 1, node.name)>>
           \o debugPrint(node.rhs, indent + 1)
           \o <<printIndent(indent, <<")">>)>>
    [] node.kind = "PVar" ->
         <<printIndent(indent, <<"var(">>),
           printIndent(indent + 1, node.name \o <<",">>)>>
           \o debugPrint(node.rhs, indent + 1)
           \o <<printIndent(indent, <<")">>)>>
    [] OTHER -> <<>>

\* The output of the nodes of a vector, one after the other.
RECURSIVE debugPrintAll(_, _)
debugPrintAll(nodes, indent) ==
  IF nodes = <<>>
  THEN <<>>
  ELSE debugPrint(Head(nodes), indent) \o debugPrintAll(Tail(nodes), indent)

\* PRoot::debugPrint: `root(` and `)` are written without printIndent.
PRoot_debugPrint(nodes, indent) ==
  <<Line(0, <<"root(">>)>> \o debugPrintAll(nodes, indent + 1) \o <<Line(0, <<")">>)>>

\* The caller of parse() serializes the root it received, serializing and
\* dropping the first statement instead of leaving the root alone.
debugPrintRoot_Consuming ==
  /\ pc = "returned"
  /\ Len(printed) < MaxPrints
  /\ \E indent \in 0..MaxIndent :
       printed' = Append(printed, [indent |-> indent,
                                   output |-> PRoot_debugPrint(root, indent)])
  /\ root' = IF root = <<>> THEN root ELSE Tail(root)
  /\ UNCHANGED <<lexed, err, lalrvars, calls, peeking, currentToken, currentText,
                 peekedToken, peekedText, pc, stack, token, lhs, retval>>

\* The caller of parse() serializes the root it received:
\* root->debugPrint(output, indent)
debugPrintRoot ==
  /\ pc = "returned"
  /\ Len(printed) < MaxPrints
  /\ \E indent \in 0..MaxIndent :
       printed' = Append(printed, [indent |-> indent,
                                   output |-> PRoot_debugPrint(root, indent)])
  /\ UNCHANGED <<lexed, err, rdvars, lalrvars, calls>>

Next ==
  \/ parseRoot
  \/ parseRoot_1
  \/ parseStatement
  \/ parseExpression
  \/ parseAddition
  \/ parseAddition_1
  \/ parseAddition_2
  \/ parseAddition_3
  \/ parseMultiplication
  \/ parseMultiplication_1
  \/ parseMultiplication_2
  \/ parseMultiplication_3
  \/ parseLiteral
  \/ parseAssignment
  \/ parseAssignment_1
  \/ parseAssignment_2
  \/ parseAssignment_3
  \/ parseIdentifier
  \/ parseLet
  \/ parseLet_1
  \/ parseLet_2
  \/ parseLet_3
  \/ parseVar
  \/ parseVar_1
  \/ parseVar_2
  \/ parseVar_3
  \/ debugPrintRoot

Spec == Init /\ [][Next]_vars

-----------------------------------------------------------------------------
(* The generated LALR(1) parser: src/src/Parser/Parser.cpp.  The C++ tables
   are indexed from 0. *)

At0(table, i) == table[i + 1]

yypact_ninf_ == -30

yytable_ninf_ == -1

yypact_ ==
  << -5, -30, -30,   0,   2,  20, -30,  -5,  -1,  -1,
     -1, -30,  -8,  -7, -30, -30, -30,  12,  13, -30,
    -30, -30,   3,   3,   3, -30, -30,   4,  15,   4,
      4, -30, -30,   4,   4, -30, -30, -30, -30,  18,
     10, -30, -30,   4, -30, -30 >>

yydefact_ ==
  <<  0,  26,  27,   0,   0,   0,   2,   4,   0,   0,
      0,  10,  12,  16,  19,  24,  25,   0,   0,   1,
      3,  29,   6,   7,   5,  13,  14,   0,   0,   0,
      0,  17,  18,   0,   0,  28,  11,  21,  15,  23,
      0,   8,   9,   0,  20,  22 >>

yypgoto_ ==
  << -30, -30,  21, -30, -30, -30, -29,   5, -30, -30,
     -30, -30, -30, -14, -30, -30, -30,   8 >>

yydefgoto_ ==
  << -1,   5,   6,   7,   8,   9,  10,  11,  27,  12,
     13,  31,  32,  40,  14,  15,  16,  22 >>

yytable_ ==
  << 38,  39,  28,  29,  41,  42,   1,   2,   3,  30,
     25,  17,  26,  18,  39,   1,   2,  23,  24,   4,
     19,  21,  33,  34,  43,  35,  37,  44,  20,  45,
      0,   0,  36 >>

yycheck_ ==
  << 29,  30,   9,  10,  33,  34,  11,  12,  13,  16,
     18,  11,  20,  11,  43,  11,  12,   9,  10,  24,
      0,  22,  10,  10,   6,  22,  11,  17,   7,  43,
     -1,  -1,  27 >>

yyr1_ ==
  <<  0,  25,  26,  27,  27,  28,  28,  28,  29,  30,
     31,  32,  32,  33,  33,  34,  34,  35,  35,  35,
     36,  37,  38,  38,  39,  39,  40,  41,  42,  42 >>

yyr2_ ==
  <<  0,   2,   1,   2,   1,   2,   2,   2,   4,   4,
      1,   3,   1,   1,   1,   3,   1,   2,   2,   1,
      3,   2,   3,   1,   1,   1,   1,   1,   2,   1 >>

\* The terminals of yytname_, as yytnamerr_ prints them (it strips the quotes
\* of "end of file").
yytname_ ==
  << "end of file", "error", "$undefined", "ABSTRACT", "CLASS", "COLON",
     "COMMA", "BRACE_LEFT", "BRACE_RIGHT", "DOT", "EQUALS", "IDENTIFIER",
     "INTEGER", "LET", "LESS_THAN", "MIXIN", "PAREN_LEFT", "PAREN_RIGHT",
     "PLUS", "REAL", "STAR", "STRING", "TERMINAL", "UNRECOGNIZED", "VAR" >>

yyntokens_ == Len(yytname_)

yylast_ == Len(yytable_) - 1

yyeof_ == 0

yyterror_ == 1

empty_symbol == -2

\* The state reached by shifting end-of-input after `program`.
yyfinal_ == 19

YYERROR_VERBOSE_ARGS_MAXIMUM == 5

\* A token of the generated parser's lexer: its symbol number and its text.
Sym(name, value) ==
  [type |-> (CHOOSE n \in 0..(yyntokens_ - 1) : At0(yytname_, n) = name),
   value |-> value]

EmptySym == [type |-> empty_symbol]

EofSym == Sym("end of file", <<>>)
CommaSym == Sym("COMMA", <<>>)
DotSym == Sym("DOT", <<>>)
EqualsSym == Sym("EQUALS", <<>>)
LetSym == Sym("LET", <<>>)
ParenLeftSym == Sym("PAREN_LEFT", <<>>)
ParenRightSym == Sym("PAREN_RIGHT", <<>>)
PlusSym == Sym("PLUS", <<>>)
StarSym == Sym("STAR", <<>>)
TerminalSym == Sym("TERMINAL", <<>>)
VarSym == Sym("VAR", <<>>)

IdentSyms == {Sym("IDENTIFIER", t) : t \in {<<"a">>, <<"b">>}}
IntSyms == {Sym("INTEGER", <<"7">>)}
OperandSyms == IdentSyms \cup IntSyms

SymAlphabet ==
  OperandSyms \cup {EofSym, CommaSym, DotSym, EqualsSym, LetSym, ParenLeftSym,
                    ParenRightSym, PlusSym, StarSym, TerminalSym, VarSym}

\* Longer inputs of the generated parser, as for Patterns.
SymPatterns ==
  { <<IdentSyms, {DotSym}, IdentSyms, {DotSym, ParenLeftSym}, OperandSyms \cup {ParenRightSym},
      {TerminalSym, ParenRightSym}, {TerminalSym}>>,
    <<IdentSyms, {ParenLeftSym}, OperandSyms, {CommaSym}, OperandSyms,
      {ParenRightSym}, {DotSym}, IdentSyms, {TerminalSym}>>,
    <<IdentSyms, {ParenLeftSym}, OperandSyms, {ParenRightSym}, {EqualsSym},
      OperandSyms, {TerminalSym}>>,
    <<{Sym("IDENTIFIER", <<"a">>)}, {TerminalSym}, OperandSyms, {TerminalSym},
      {ParenRightSym, PlusSym}>>,
    <<IdentSyms, {ParenLeftSym}, IdentSyms, {EqualsSym}, IntSyms, {CommaSym},
      IdentSyms, {PlusSym, StarSym}, IdentSyms, {ParenRightSym}, {TerminalSym}>>,
    <<IdentSyms, {ParenLeftSym}, IntSyms, {CommaSym}, {ParenRightSym}>> }

SymChoices(ts) == LexChoicesOf(ts, SymAlphabet, SymPatterns, EofSym)

(* Nodes of the generated parser: src/src/Parser/Nodes.h, Nodes.cpp *)

PCall(target, arguments) ==
  [kind |-> "PCall", target |-> target, arguments |-> arguments]

PProperty(receiver, name) ==
  [kind |-> "PProperty", receiver |-> receiver, name |-> name]

PRoot(nodes) == [nodes |-> nodes]

isCall(node) == node.kind = "PCall"

\* The caller received a Root object.
IsRoot(p) == "nodes" \in DOMAIN p

\* PAssignment built without looking at its target.
NewPAssignment_Unchecked(l, r) == [ok |-> TRUE, node |-> PAssignment(l, r)]

\* PAssignment::PAssignment of Nodes.cpp: exit(1) when the target is a call.
NewPAssignment(l, r) ==
  IF isCall(l)
  THEN [ok |-> FALSE, err |-> [msg |-> "Cannot assign to result of a call"]]
  ELSE [ok |-> TRUE, node |-> PAssignment(l, r)]

\* PIntegerLiteral built from the lexeme, as rule 27 calls it.
NewPIntegerLiteral(s) ==
  LET value == stoll(s)
  IN  IF value.ok
      THEN [ok |-> TRUE, node |-> PIntegerLiteral(value.value)]
      ELSE [ok |-> FALSE, err |-> [msg |-> "std::out_of_range"]]

push_front(vector, node) == <<node>> \o vector

\* yystack_[k]: the k-th entry from the top.
StackAt(st, k) == st[Len(st) - k]

yypop_(st, n) == SubSeq(st, 1, Len(st) - n)

yy_pact_value_is_default_(yyvalue) == yyvalue = yypact_ninf_

yy_table_value_is_error_(yyvalue) == yyvalue = yytable_ninf_

yy_lr_goto_state_(yystate, yysym) ==
  LET yyr == At0(yypgoto_, yysym - yyntokens_) + yystate
  IN  IF 0 <= yyr /\ yyr <= yylast_ /\ At0(yycheck_, yyr) = yystate
      THEN At0(yytable_, yyr)
      ELSE At0(yydefgoto_, yysym - yyntokens_)

\* The rules of `chain` with each postfix wrapping the chain's first atom only.
chain_FirstAtom(n, st) ==
  LET RECURSIVE first(_)
      first(c) == CASE c.kind = "PProperty" -> first(c.receiver)
                    [] c.kind = "PCall" -> first(c.target)
                    [] OTHER -> c
  IN  CASE n = 17 -> PCall(first(StackAt(st, 1).value), StackAt(st, 0).value)
        [] n = 18 -> PProperty(first(StackAt(st, 1).value), StackAt(st, 0).value)
        [] n = 19 -> StackAt(st, 0).value

\* The actions of the rules of `chain` (17, 18, 19): a postfix wraps the chain
\* to its left.
chain(n, st) ==
  CASE n = 17 -> PCall(StackAt(st, 1).value, StackAt(st, 0).value)
    [] n = 18 -> PProperty(StackAt(st, 1).value, StackAt(st, 0).value)
    [] n = 19 -> StackAt(st, 0).value

\* The semantic action of rule `n` on the stack `st`: the value of the
\* left-hand side, the root handed to Driver::setRoot (rule 2), or the
\* diagnostic of a constructor that exits.
SemanticAction(n, st) ==
  LET v(k) == StackAt(st, k).value
      plain(x) == [ok |-> TRUE, value |-> x, setRoot |-> FALSE]
      built(c) == IF c.ok THEN plain(c.node) ELSE [ok |-> FALSE, err |-> c.err]
  IN  CASE n = 2 -> [ok |-> TRUE, value |-> <<>>, setRoot |-> TRUE, root |-> PRoot(v(0))]
        [] n = 3 -> plain(push_front(v(0), v(1)))
        [] n = 4 -> plain(<<v(0)>>)
        [] n \in {5, 6, 7} -> plain(v(1))
        [] n = 8 -> plain(PLet(v(2), v(0)))
        [] n = 9 -> plain(PVar(v(2), v(0)))
        [] n = 10 -> plain(v(0))
        [] n = 11 -> plain(v(2))
        [] n = 12 -> plain(v(0))
        [] n = 15 -> built(NewPAssignment(v(2), v(0)))
        [] n = 16 -> plain(v(0))
        [] n \in {17, 18, 19} -> plain(chain(n, st))
        [] n = 20 -> plain(v(1))
        [] n = 21 -> plain(v(0))
        [] n = 22 -> plain(push_front(v(0), v(2)))
        [] n = 23 -> plain(<<v(0)>>)
        [] n \in {24, 25} -> plain(v(0))
        [] n = 26 -> plain(PIdentifier(v(0)))
        [] n = 27 -> built(NewPIntegerLiteral(v(0)))
        [] OTHER -> plain(<<>>)

\* yysyntax_error_ without the verbose part.
yysyntax_error_Plain(yystate, la) == [msg |-> "syntax error", args |-> <<>>]

\* yysyntax_error_: the unexpected token and the tokens the state accepts,
\* none of them once there are more than four.
yysyntax_error_(yystate, la) ==
  IF la.type = empty_symbol
  THEN [msg |-> "syntax error", args |-> <<>>]
  ELSE
    LET n == At0(yypact_, yystate)
        yyxbegin == IF n < 0 THEN -n ELSE 0
        yychecklim == yylast_ - n + 1
        yyxend == IF yychecklim < yyntokens_ THEN yychecklim ELSE yyntokens_
        Expected(yyx) ==
          /\ At0(yycheck_, yyx + n) = yyx
          /\ yyx # yyterror_
          /\ ~yy_table_value_is_error_(At0(yytable_, yyx + n))
        candidates ==
          IF yy_pact_value_is_default_(n)
          THEN <<>>
          ELSE SelectSeq([i \in 1..(yyxend - yyxbegin) |-> yyxbegin + i - 1], Expected)
        reported ==
          IF Len(candidates) > YYERROR_VERBOSE_ARGS_MAXIMUM - 1 THEN <<>> ELSE candidates
    IN  [msg |-> "syntax error",
         args |-> <<At0(yytname_, la.type)>>
                    \o [i \in 1..Len(reported) |-> At0(yytname_, reported[i])]]

\* The loop of yyerrlab1: pop states until one shifts the error token.
RECURSIVE PopToErrorShift(_)
PopToErrorShift(st) ==
  LET n == At0(yypact_, StackAt(st, 0).state)
      m == n + yyterror_
      target ==
        IF /\ ~yy_pact_value_is_default_(n)
           /\ 0 <= m /\ m <= yylast_
           /\ At0(yycheck_, m) = yyterror_
        THEN At0(yytable_, m)
        ELSE 0
  IN  IF 0 < target
      THEN [abort |-> FALSE, stack |-> st, state |-> target]
      ELSE IF Len(st) = 1
           THEN [abort |-> TRUE, stack |-> st]
           ELSE PopToErrorShift(yypop_(st, 1))

\* Before Driver::parse is called.  Driver::Driver leaves `root` unset, and a
\* driver that parsed before still holds the root of that parse.
InitLALR ==
  /\ NoObservations
  /\ lexed = <<>>
  /\ err = NoErr
  /\ peeking = FALSE
  /\ currentToken = "uninitialized"
  /\ currentText = 0
  /\ peekedToken = "uninitialized"
  /\ peekedText = 0
  /\ pc = "idle"
  /\ stack = <<>>
  /\ token = "none"
  /\ lhs = NoNode
  /\ retval = NoNode
  /\ root = <<>>
  /\ label = "Driver::parse"
  /\ yystack_ = <<>>
  /\ yyla = EmptySym
  /\ yyn = 0
  /\ yynerrs_ = 0
  /\ yyerrstatus_ = 0
  /\ yyresult = -1
  /\ errors = <<>>
  /\ driverRoot \in {Unset, PRoot(<<PIdentifier(<<"a">>)>>)}
  /\ newRoots = <<>>
  /\ returned = Pointer("nothing")
  /\ memory = IF driverRoot = Unset
              THEN NoMemory
              ELSE [NoMemory EXCEPT !.cells = <<Cell(driverRoot.nodes[1], <<>>)>>,
                                    !.root = <<1>>]

\* The generated parser is at `l`; the recursive-descent parser is not running.
AtLabel(l) == label = l /\ UNCHANGED <<rdvars, obsvars>>

\* yypush_ of a semantic value holding the node pointers `ptrs`.
Push(m, ptrs) == [m EXCEPT !.held = Append(@, ptrs)]

\* yypop_ down to `n` entries: the values popped are destroyed, the nodes
\* their pointers refer to are not.
Truncate(m, n) == [m EXCEPT !.held = SubSeq(@, 1, n)]

\* The rules whose action runs `new PNode(...)`.
AllocatingRules == {8, 9, 15, 17, 18, 26, 27}

\* Rule 15 storing the pointer to its target twice, as target and as value.
Operands_Aliased(n, held) ==
  LET p(k) == StackAt(held, k)
  IN  CASE n \in {3, 17} -> p(1) \o p(0)
        [] n \in {5, 6, 7, 18, 20} -> p(1)
        [] n = 11 -> p(2)
        [] n = 15 -> p(2) \o p(2)
        [] n = 22 -> p(2) \o p(0)
        [] n \in {2, 4, 8, 9, 10, 12, 16, 19, 23, 24, 25} -> p(0)
        [] OTHER -> <<>>

\* The node pointers the action of rule `n` takes from the stack, in the order
\* it stores them: the pointers of its value, or, for an allocating rule, of
\* the members of the node it makes.  Strings hold none.
Operands(n, held) ==
  LET p(k) == StackAt(held, k)
  IN  CASE n \in {3, 17} -> p(1) \o p(0)
        [] n \in {5, 6, 7, 18, 20} -> p(1)
        [] n = 11 -> p(2)
        [] n \in {15, 22} -> p(2) \o p(0)
        [] n \in {2, 4, 8, 9, 10, 12, 16, 19, 23, 24, 25} -> p(0)
        [] OTHER -> <<>>

\* The memory after the action of rule `n` built `value`, yylen entries were
\* popped and the result was pushed.  Rule 2 hands its vector to the new PRoot.
Reduce(m, n, yylen, value) ==
  LET ptrs == Operands(n, m.held)
      cells == IF n \in AllocatingRules
               THEN Append(m.cells, Cell(value, ptrs))
               ELSE m.cells
      result == CASE n \in AllocatingRules -> <<Len(cells)>>
                  [] n = 2 -> <<>>
                  [] OTHER -> ptrs
  IN  [cells |-> cells,
       held |-> Append(SubSeq(m.held, 1, Len(m.held) - yylen), result),
       root |-> IF n = 2 THEN ptrs ELSE m.root]

\* Driver::parse up to parser.parse(), and parse() up to yynewstate:
\* yystack_.clear(); yypush_(0)
DriverParse ==
  /\ AtLabel("Driver::parse")
  /\ yystack_' = <<[state |-> 0, value |-> <<>>]>>
  /\ memory' = Push(Truncate(memory, 0), <<>>)
  /\ label' = "yynewstate"
  /\ UNCHANGED <<lexed, err, yyla, yyn, yynerrs_, yyerrstatus_, yyresult, errors,
                 driverRoot, newRoots, returned>>

yynewstate ==
  /\ AtLabel("yynewstate")
  /\ label' = IF StackAt(yystack_, 0).state = yyfinal_ THEN "yyacceptlab" ELSE "yybackup"
  /\ UNCHANGED <<lexed, err, yystack_, yyla, yyn, yynerrs_, yyerrstatus_, yyresult,
                 errors, driverRoot, newRoots, returned, memory>>

\* yybackup: read a lookahead if the state needs one, then shift, or go on to
\* yydefault, yyreduce or yyerrlab.
yybackup ==
  /\ AtLabel("yybackup")
  /\ LET n0 == At0(yypact_, StackAt(yystack_, 0).state)
     IN  IF yy_pact_value_is_default_(n0)
         THEN /\ label' = "yydefault"
              /\ UNCHANGED <<lexed, yystack_, yyla, yyn, yyerrstatus_>>
         ELSE \E lx \in SymChoices(lexed) :
                LET la == IF yyla.type = empty_symbol THEN lx ELSE yyla
                    n1 == n0 + la.type
                IN  /\ lexed' = IF yyla.type = empty_symbol THEN Append(lexed, lx) ELSE lexed
                    /\ IF n1 < 0 \/ yylast_ < n1 \/ At0(yycheck_, n1) # la.type
                       THEN /\ label' = "yydefault"
                            /\ yyla' = la
                            /\ UNCHANGED <<yystack_, yyn, yyerrstatus_>>
                       ELSE LET n2 == At0(yytable_, n1)
                            IN  IF n2 <= 0
                                THEN /\ yyla' = la
                                     /\ IF yy_table_value_is_error_(n2)
                                        THEN label' = "yyerrlab" /\ UNCHANGED yyn
                                        ELSE label' = "yyreduce" /\ yyn' = -n2
                                     /\ UNCHANGED <<yystack_, yyerrstatus_>>
                                ELSE /\ yyerrstatus_' =
                                          IF yyerrstatus_ # 0 THEN yyerrstatus_ - 1 ELSE 0
                                     /\ yystack_' = Append(yystack_,
                                                      [state |-> n2, value |-> la.value])
                                     /\ yyla' = EmptySym
                                     /\ label' = "yynewstate"
                                     /\ UNCHANGED yyn
  /\ memory' = IF Len(yystack_') > Len(yystack_) THEN Push(memory, <<>>) ELSE memory
  /\ UNCHANGED <<err, yynerrs_, yyresult, errors, driverRoot, newRoots, returned>>

yydefault ==
  /\ AtLabel("yydefault")
  /\ yyn' = At0(yydefact_, StackAt(yystack_, 0).state)
  /\ label' = IF yyn' = 0 THEN "yyerrlab" ELSE "yyreduce"
  /\ UNCHANGED <<lexed, err, yystack_, yyla, yynerrs_, yyerrstatus_, yyresult, errors,
                 driverRoot, newRoots, returned, memory>>

\* yyreduce: run the rule's action, pop its right-hand side, push the result.
yyreduce ==
  /\ AtLabel("yyreduce")
  /\ LET yylen == At0(yyr2_, yyn)
         state == yy_lr_goto_state_(StackAt(yystack_, yylen).state, At0(yyr1_, yyn))
         a == SemanticAction(yyn, yystack_)
     IN  IF a.ok
         THEN /\ yystack_' = Append(yypop_(yystack_, yylen),
                                    [state |-> state, value |-> a.value])
              /\ memory' = Reduce(memory, yyn, yylen, a.value)
              /\ driverRoot' = IF a.setRoot THEN a.root ELSE driverRoot
              /\ newRoots' = IF a.setRoot THEN Append(newRoots, a.root) ELSE newRoots
              /\ label' = "yynewstate"
              /\ UNCHANGED err
         ELSE /\ label' = "exit"
              /\ err' = a.err
              /\ UNCHANGED <<yystack_, driverRoot, newRoots, memory>>
  /\ UNCHANGED <<lexed, yyla, yyn, yynerrs_, yyerrstatus_, yyresult, errors, returned>>

\* yyerrlab: report the error unless recovering; give up at end of input.
yyerrlab ==
  /\ AtLabel("yyerrlab")
  /\ IF yyerrstatus_ = 0
     THEN /\ yynerrs_' = yynerrs_ + 1
          /\ errors' = Append(errors, yysyntax_error_(StackAt(yystack_, 0).state, yyla))
     ELSE UNCHANGED <<yynerrs_, errors>>
  /\ IF yyerrstatus_ = 3
     THEN IF yyla.type = yyeof_
          THEN label' = "yyabortlab" /\ UNCHANGED yyla
          ELSE label' = "yyerrlab1" /\ yyla' = EmptySym
     ELSE label' = "yyerrlab1" /\ UNCHANGED yyla
  /\ UNCHANGED <<lexed, err, yystack_, yyn, yyerrstatus_, yyresult, driverRoot,
                 newRoots, returned, memory>>

\* yyerrlab1 resynchronizing: it drops the lookahead and goes on parsing.
yyerrlab1_Resynchronize ==
  /\ AtLabel("yyerrlab1")
  /\ yyerrstatus_' = 3
  /\ yyla' = EmptySym
  /\ label' = "yybackup"
  /\ UNCHANGED <<lexed, err, yystack_, yyn, yynerrs_, yyresult, errors, driverRoot,
                 newRoots, returned, memory>>

yyerrlab1 ==
  /\ AtLabel("yyerrlab1")
  /\ yyerrstatus_' = 3
  /\ LET r == PopToErrorShift(yystack_)
     IN  IF r.abort
         THEN /\ label' = "yyabortlab"
              /\ yystack_' = r.stack
              /\ memory' = Truncate(memory, Len(r.stack))
         ELSE /\ label' = "yynewstate"
              /\ yystack_' = Append(r.stack, [state |-> r.state, value |-> <<>>])
              /\ memory' = Push(Truncate(memory, Len(r.stack)), <<>>)
  /\ UNCHANGED <<lexed, err, yyla, yyn, yynerrs_, yyresult, errors, driverRoot,
                 newRoots, returned>>

yyacceptlab ==
  /\ AtLabel("yyacceptlab")
  /\ yyresult' = 0
  /\ label' = "yyreturn"
  /\ UNCHANGED <<lexed, err, yystack_, yyla, yyn, yynerrs_, yyerrstatus_, errors,
                 driverRoot, newRoots, returned, memory>>

yyabortlab ==
  /\ AtLabel("yyabortlab")
  /\ yyresult' = 1
  /\ label' = "yyreturn"
  /\ UNCHANGED <<lexed, err, yystack_, yyla, yyn, yynerrs_, yyerrstatus_, errors,
                 driverRoot, newRoots, returned, memory>>

\* yyreturn: discard the lookahead and the stack; parse() returns yyresult.
yyreturn ==
  /\ AtLabel("yyreturn")
  /\ yyla' = EmptySym
  /\ yystack_' = SubSeq(yystack_, 1, 1)
  /\ memory' = Truncate(memory, 1)
  /\ label' = "Driver::parse_1"
  /\ UNCHANGED <<lexed, err, yyn, yynerrs_, yyerrstatus_, yyresult, errors, driverRoot,
                 newRoots, returned>>

\* The values a read of the pointer Driver::root may give: an unset pointer
\* reads as anything.
ReadRoot(r) == IF r = Unset THEN {Pointer("NULL"), Pointer("garbage")} ELSE {r}

\* Driver::parse after parser.parse(): return root;
DriverParse_1 ==
  /\ AtLabel("Driver::parse_1")
  /\ returned' \in ReadRoot(driverRoot)
  /\ label' = "done"
  /\ UNCHANGED <<lexed, err, yystack_, yyla, yyn, yynerrs_, yyerrstatus_, yyresult,
                 errors, driverRoot, newRoots, memory>>

(* Debug serialization of the generated parser's nodes: src/src/Parser/Nodes.cpp,
   lines 23-146.  The integer variant, PInteger in Nodes.h, is the node rule 27
   of the generated parser makes under the name PIntegerLiteral. *)

\* printIndent of Nodes.cpp with four spaces a level.
Nodes_printIndent_Wide(indent, pieces) == Line(indent * 4, pieces)

\* #define printIndent (*output << std::string(indent * 2, ' '))
Nodes_printIndent(indent, pieces) == Line(indent * 2, pieces)

\* PNode::debugPrint of Nodes.cpp with every branch but PCall's.
RECURSIVE Nodes_debugPrint_NoCall(_, _)
Nodes_debugPrint_NoCall(node, indent) ==
  LET P(i, pieces) == Nodes_printIndent(i, pieces)
      D(n, i) == Nodes_debugPrint_NoCall(n, i)
  IN  CASE node.kind = "PAssignment" ->
             <<P(indent, <<"assignment(">>)>> \o D(node.lhs, indent + 1)
               \o <<P(indent + 1, <<"=">>)>> \o D(node.rhs, indent + 1)
               \o <<P(indent, <<")">>)>>
        [] node.kind = "PIdentifier" ->
             <<P(indent, <<"identifier(">> \o node.value \o <<")">>)>>
        [] node.kind = "PIntegerLiteral" ->
             <<P(indent, <<"integer(">> \o node.number \o <<")">>)>>
        [] node.kind = "PLet" ->
             <<P(indent, <<"let(">>), P(indent + 1, node.name)>>
               \o D(node.rhs, indent + 1) \o <<P(indent, <<")">>)>>
        [] node.kind = "PProperty" ->
             <<P(indent, <<"property(">>)>> \o D(node.receiver, indent + 1)
               \o <<P(indent + 1, node.name), P(indent, <<")">>)>>
        [] node.kind = "PVar" ->
             <<P(indent, <<"var(">>), P(indent + 1, node.name \o <<",">>)>>
               \o D(node.rhs, indent + 1) \o <<P(indent, <<")">>)>>
        [] OTHER -> <<>>

\* PNode::debugPrint of Nodes.cpp with the debugPrint of the variant it holds;
\* a variant without a DEBUG_PRINT_IF line writes nothing.  PArray and PIndexer
\* are made by no rule of the generated parser.
RECURSIVE Nodes_debugPrint(_, _)
Nodes_debugPrint(node, indent) ==
  LET P(i, pieces) == Nodes_printIndent(i, pieces)
      D(n, i) == Nodes_debugPrint(n, i)
      RECURSIVE All(_, _)
      All(nodes, i) == IF nodes = <<>> THEN <<>>
                       ELSE D(Head(nodes), i) \o All(Tail(nodes), i)
  IN  CASE node.kind = "PAssignment" ->
             <<P(indent, <<"assignment(">>)>> \o D(node.lhs, indent + 1)
               \o <<P(indent + 1, <<"=">>)>> \o D(node.rhs, indent + 1)
               \o <<P(indent, <<")">>)>>
        [] node.kind = "PCall" ->
             <<P(indent, <<"call(">>)>> \o D(node.target, indent + 1)
               \o All(node.arguments, indent + 1) \o <<P(indent, <<")">>)>>
        [] node.kind = "PIdentifier" ->
             <<P(indent, <<"identifier(">> \o node.value \o <<")">>)>>
        [] node.kind = "PInfix" ->
             <<P(indent, <<"infix(">>)>> \o D(node.lhs, indent + 1)
               \o <<P(indent + 1, <<opChar(node.op)>>)>> \o D(node.rhs, indent + 1)
               \o <<P(indent, <<")">>)>>
        [] node.kind = "PIntegerLiteral" ->
             <<P(indent, <<"integer(">> \o node.number \o <<")">>)>>
        [] node.kind = "PLet" ->
             <<P(indent, <<"let(">>), P(indent + 1, node.name)>>
               \o D(node.rhs, indent + 1) \o <<P(indent, <<")">>)>>
        [] node.kind = "PProperty" ->
             <<P(indent, <<"property(">>)>> \o D(node.receiver, indent + 1)
               \o <<P(indent + 1, node.name), P(indent, <<")">>)>>
        [] node.kind = "PVar" ->
             <<P(indent, <<"var(">>), P(indent + 1, node.name \o <<",">>)>>
               \o D(node.rhs, indent + 1) \o <<P(indent, <<")">>)>>
        [] OTHER -> <<>>

\* PRoot::debugPrint of Nodes.cpp: `root(` and `)` are written without
\* printIndent, the statements at indent + 1.
RECURSIVE Nodes_PRoot_debugPrint(_, _)
Nodes_PRoot_debugPrint(nodes, indent) ==
  LET RECURSIVE All(_)
      All(ns) == IF ns = <<>> THEN <<>>
                 ELSE Nodes_debugPrint(Head(ns), indent + 1) \o All(Tail(ns))
  IN  <<Line(0, <<"root(">>)>> \o All(nodes) \o <<Line(0, <<")">>)>>

\* delete of each pointer of `ptrs`: ~PNode destroys the variant, whose PNode*
\* members are plain pointers, so the nodes they point to are left alone.
DeleteNodes(m, ptrs) ==
  [m EXCEPT !.cells = [a \in DOMAIN @ |->
     IF \E i \in 1..Len(ptrs) : ptrs[i] = a
     THEN [@[a] EXCEPT !.deleted = @ + Cardinality({i \in 1..Len(ptrs) : ptrs[i] = a})]
     ELSE @[a]]]

\* ~PRoot: for (auto node : nodes) delete node;
PRoot_dtor(m) == DeleteNodes(m, m.root)

\* ~PRoot that forgets the nodes.
PRoot_dtor_Empty(m) == m

\* main after driver.parse(): if (root) root->debugPrint(&cout, 0);
\* Calling through a pointer that was never set is undefined: the process may
\* crash or go on to its end.
mainDebugPrint ==
  /\ label = "done"
  /\ CASE IsRoot(returned) ->
            /\ printed' = Append(printed,
                 [indent |-> 0, output |-> Nodes_PRoot_debugPrint(returned.nodes, 0)])
            /\ label' = "main_delete"
       [] returned = Pointer("NULL") ->
            /\ label' = "exited"
            /\ UNCHANGED printed
       [] OTHER ->
            /\ label' \in {"crashed", "exited"}
            /\ UNCHANGED printed
  /\ UNCHANGED <<lexed, err, rdvars, calls, yystack_, yyla, yyn, yynerrs_, yyerrstatus_,
                 yyresult, errors, driverRoot, newRoots, returned, memory>>

\* main: delete root; return 0;
mainDelete ==
  /\ label = "main_delete"
  /\ memory' = PRoot_dtor(memory)
  /\ label' = "exited"
  /\ UNCHANGED <<lexed, err, rdvars, obsvars, yystack_, yyla, yyn, yynerrs_, yyerrstatus_,
                 yyresult, errors, driverRoot, newRoots, returned>>

NextLALR ==
  \/ DriverParse
  \/ yynewstate
  \/ yybackup
  \/ yydefault
  \/ yyreduce
  \/ yyerrlab
  \/ yyerrlab1
  \/ yyacceptlab
  \/ yyabortlab
  \/ yyreturn
  \/ DriverParse_1
  \/ mainDebugPrint
  \/ mainDelete

SpecLALR == InitLALR /\ [][NextLALR]_vars

-----------------------------------------------------------------------------
(* Vocabulary of the properties *)

\* parse() returned the root to its caller.
Returned == pc = "returned"

\* The tokens of the input before end-of-input.
Input == IF lexed # <<>> /\ lexed[Len(lexed)].kind = "T_EOF"
         THEN SubSeq(lexed, 1, Len(lexed) - 1)
         ELSE lexed

\* The node of a single operand token.
Operand(t) ==
  IF t.kind = "T_INTEGER"
  THEN PIntegerLiteral(StripZeros(t.text))
  ELSE PIdentifier(t.text)

OpOf(t) == IF t.kind = "T_PLUS" THEN "ADD" ELSE "MULTIPLY"

\* Every node of a tree, the tree's top node included.
RECURSIVE SubNodes(_)
SubNodes(n) ==
  {n} \cup
    CASE n.kind \in {"PLet", "PVar"} -> SubNodes(n.rhs)
      [] n.kind \in {"PAssignment", "PInfix"} -> SubNodes(n.lhs) \cup SubNodes(n.rhs)
      [] n.kind = "PCall" ->
           SubNodes(n.target)
             \cup UNION {SubNodes(n.arguments[i]) : i \in 1..Len(n.arguments)}
      [] n.kind = "PProperty" -> SubNodes(n.receiver)
      [] OTHER -> {}

RootNodes(r) == UNION {SubNodes(r[i]) : i \in 1..Len(r)}

\* The number of tokens a tree of the recursive-descent parser was built from.
RECURSIVE Size(_)
Size(n) ==
  CASE n.kind \in {"PLet", "PVar"} -> 3 + Size(n.rhs)
    [] n.kind \in {"PAssignment", "PInfix"} -> Size(n.lhs) + 1 + Size(n.rhs)
    [] OTHER -> 1

\* The grammar of the expression rule, as a function from a token sequence to
\* the tree of its longest expression prefix and the tokens left over:
\*   addition := multiplication ("+" addition)?
\*   multiplication := assignment ("*" multiplication)?
\*   assignment := operand ("=" addition)?
RECURSIVE GrammarAddition(_), GrammarMultiplication(_), GrammarAssignment(_)
GrammarAssignment(ts) ==
  IF ts = <<>> \/ ts[1] \notin OperandToks
  THEN [ok |-> FALSE]
  ELSE IF Len(ts) >= 2 /\ ts[2] = EqualsTok
       THEN LET v == GrammarAddition(SubSeq(ts, 3, Len(ts)))
            IN  IF v.ok
                THEN [ok |-> TRUE, node |-> PAssignment(Operand(ts[1]), v.node),
                      rest |-> v.rest]
                ELSE [ok |-> FALSE]
       ELSE [ok |-> TRUE, node |-> Operand(ts[1]), rest |-> Tail(ts)]

GrammarMultiplication(ts) ==
  LET l == GrammarAssignment(ts)
  IN  IF l.ok /\ l.rest # <<>> /\ l.rest[1] = StarTok
      THEN LET r == GrammarMultiplication(Tail(l.rest))
           IN  IF r.ok
               THEN [ok |-> TRUE, node |-> PInfix(l.node, "MULTIPLY", r.node),
                     rest |-> r.rest]
               ELSE [ok |-> FALSE]
      ELSE l

GrammarAddition(ts) ==
  LET l == GrammarMultiplication(ts)
  IN  IF l.ok /\ l.rest # <<>> /\ l.rest[1] = PlusTok
      THEN LET r == GrammarAddition(Tail(l.rest))
           IN  IF r.ok
               THEN [ok |-> TRUE, node |-> PInfix(l.node, "ADD", r.node),
                     rest |-> r.rest]
               ELSE [ok |-> FALSE]
      ELSE l

-----------------------------------------------------------------------------
(* Properties of the recursive-descent parser *)

\* C1: greedy assignment.  `a * b = c + d` parses to the single statement
\* Infix(a, Multiply, Assignment(b, Infix(c, Add, d))); whenever `=` follows
\* the right operand of `*` or `+`, the Assignment is that operator's right
\* operand, its value runs to the end of the expression, and no Assignment
\* has an Infix as its target.
C1_GreedyAssignment ==
  Returned =>
    /\ \A n \in RootNodes(root) : n.kind = "PAssignment" => n.lhs.kind # "PInfix"
    /\ ( /\ Len(lexed) >= 6
         /\ lexed[1] \in OperandToks /\ lexed[2] \in InfixToks
         /\ lexed[3] \in IdentToks /\ lexed[4] = EqualsTok )
       => /\ root[1].kind = "PInfix"
          /\ root[1].op = OpOf(lexed[2])
          /\ root[1].lhs = Operand(lexed[1])
          /\ root[1].rhs.kind = "PAssignment"
          /\ root[1].rhs.lhs = PIdentifier(lexed[3].text)
          /\ lexed[Size(root[1]) + 1].kind \notin {"T_PLUS", "T_STAR", "T_EQUALS"}
    /\ ( /\ Len(lexed) = 8
         /\ lexed[1] \in IdentToks /\ lexed[2] = StarTok /\ lexed[3] \in IdentToks
         /\ lexed[4] = EqualsTok /\ lexed[5] \in IdentToks /\ lexed[6] = PlusTok
         /\ lexed[7] \in IdentToks )
       => root = << PInfix(PIdentifier(lexed[1].text), "MULTIPLY",
                      PAssignment(PIdentifier(lexed[3].text),
                        PInfix(PIdentifier(lexed[5].text), "ADD",
                               PIdentifier(lexed[7].text)))) >>

C1_Witness ==
  /\ Returned
  /\ Len(lexed) = 8
  /\ lexed[2] = StarTok /\ lexed[4] = EqualsTok /\ lexed[6] = PlusTok
  /\ lexed[1].text = <<"a">> /\ lexed[3].text = <<"b">>
  /\ Len(root) = 1 /\ root[1].rhs.kind = "PAssignment"

\* The tree of `x1 op x2 op ... xn`, nested to the right.
RECURSIVE RightNested(_, _)
RightNested(operands, op) ==
  IF Len(operands) = 1
  THEN Operand(operands[1])
  ELSE PInfix(Operand(operands[1]), op, RightNested(Tail(operands), op))

\* The input is operands separated by the one operator token `o`.
IsRunOf(ts, o) ==
  /\ Len(ts) >= 3 /\ Len(ts) % 2 = 1
  /\ \A i \in 1..Len(ts) : IF i % 2 = 1 THEN ts[i] \in OperandToks ELSE ts[i] = o

\* C2: right associativity.  A run `x op y op z ...` of one operator parses
\* to a single tree nested entirely to the right, one Infix per operator token.
C2_RightAssociative ==
  \A o \in InfixToks :
    (Returned /\ IsRunOf(Input, o)) =>
      /\ root = << RightNested([i \in 1..((Len(Input) + 1) \div 2) |-> Input[2 * i - 1]],
                               OpOf(o)) >>
      /\ Cardinality({n \in SubNodes(root[1]) : n.kind = "PInfix"}) = (Len(Input) - 1) \div 2

C2_Witness ==
  /\ Returned
  /\ IsRunOf(Input, PlusTok)
  /\ Len(Input) = 7
  /\ root[1].rhs.rhs.kind = "PInfix"

\* C3: multiplication binds tighter than addition.  `let x = 1 + 2 * 3` parses
\* to the single statement Let(x, Infix(1, Add, Infix(2, Multiply, 3))), and
\* `p * q + r` to Infix(Infix(p, Multiply, q), Add, r).
C3_MultiplicationBindsTighter ==
  Returned =>
    /\ ( /\ Len(Input) = 8
         /\ lexed[1] = LetTok /\ lexed[2] \in IdentToks /\ lexed[3] = EqualsTok
         /\ lexed[4] \in IntToks /\ lexed[5] = PlusTok /\ lexed[6] \in IntToks
         /\ lexed[7] = StarTok /\ lexed[8] \in IntToks )
       => root = << PLet(lexed[2].text,
                      PInfix(Operand(lexed[4]), "ADD",
                        PInfix(Operand(lexed[6]), "MULTIPLY", Operand(lexed[8])))) >>
    /\ ( /\ Len(Input) = 5
         /\ lexed[1] \in OperandToks /\ lexed[2] = StarTok /\ lexed[3] \in OperandToks
         /\ lexed[4] = PlusTok /\ lexed[5] \in OperandToks )
       => root = << PInfix(PInfix(Operand(lexed[1]), "MULTIPLY", Operand(lexed[3])),
                           "ADD", Operand(lexed[5])) >>

C3_Witness ==
  /\ Returned
  /\ Len(Input) = 8
  /\ lexed[1] = LetTok /\ lexed[5] = PlusTok /\ lexed[7] = StarTok
  /\ lexed[4].text = <<"0", "1", "2">> /\ lexed[8].text = <<"7">>
  /\ root[1].kind = "PLet" /\ root[1].rhs.rhs.kind = "PInfix"

\* C9: the root never holds an Unknown node at any depth, and a statement that
\* came back as the Unknown sentinel ends the parse with the unmatched-node
\* error without being appended.
C9_NoUnknown ==
  /\ [](\A n \in RootNodes(root) : ~isUnknown(n))
  /\ [][(pc = "parseRoot_1" /\ isUnknown(retval))
          => (pc' = "exit" /\ err'.msg = "Unmatched node" /\ root' = root)]_vars

C9_Witness ==
  /\ Returned
  /\ Len(root) = 1
  /\ root[1].kind = "PInfix"
  /\ root[1].rhs.kind = "PAssignment"
  /\ root[1].rhs.rhs.kind = "PInfix"

\* C10: statement forms.  `let IDENT = e` yields Let(lexeme, tree of e),
\* `var IDENT = e` yields Var(lexeme, tree of e), and `IDENT = e` yields
\* Assignment(Identifier(lexeme), tree of e).
C10_StatementForms ==
  (Returned /\ Len(Input) >= 3) =>
    /\ (lexed[1] \in {LetTok, VarTok} /\ lexed[2] \in IdentToks /\ lexed[3] = EqualsTok)
       => LET e == GrammarAddition(SubSeq(Input, 4, Len(Input)))
          IN  /\ e.ok
              /\ root[1] = IF lexed[1] = LetTok
                           THEN PLet(lexed[2].text, e.node)
                           ELSE PVar(lexed[2].text, e.node)
    /\ (lexed[1] \in IdentToks /\ lexed[2] = EqualsTok)
       => LET e == GrammarAddition(SubSeq(Input, 3, Len(Input)))
          IN  /\ e.ok
              /\ root[1] = PAssignment(PIdentifier(lexed[1].text), e.node)

C10_Witness ==
  /\ Returned
  /\ Len(root) = 1
  /\ root[1].kind = "PVar"
  /\ root[1].name = <<"b">>
  /\ root[1].rhs.kind = "PInfix"

-----------------------------------------------------------------------------
(* Properties of the generated parser and its driver *)

\* Driver::parse returned to its caller.
Done == label = "done"


\* The node of a single operand token of the generated parser.
AtomOf(t) ==
  IF t \in IdentSyms THEN PIdentifier(t.value) ELSE PIntegerLiteral(StripZeros(t.value))

\* The first literal or identifier of a chain.
RECURSIVE Innermost(_)
Innermost(n) ==
  CASE n.kind = "PProperty" -> Innermost(n.receiver)
    [] n.kind = "PCall" -> Innermost(n.target)
    [] OTHER -> n

\* The chain grammar as a left fold: each postfix `.name`, `(x)` or `(x, y)`
\* of `ts` wraps the chain built so far.
RECURSIVE WrapPostfixes(_, _)
WrapPostfixes(c, ts) ==
  IF ts = <<>>
  THEN [ok |-> TRUE, node |-> c]
  ELSE IF Len(ts) >= 2 /\ ts[1] = DotSym /\ ts[2] \in IdentSyms
  THEN WrapPostfixes(PProperty(c, ts[2].value), SubSeq(ts, 3, Len(ts)))
  ELSE IF /\ Len(ts) >= 3 /\ ts[1] = ParenLeftSym /\ ts[2] \in OperandSyms
          /\ ts[3] = ParenRightSym
  THEN WrapPostfixes(PCall(c, <<AtomOf(ts[2])>>), SubSeq(ts, 4, Len(ts)))
  ELSE IF /\ Len(ts) >= 5 /\ ts[1] = ParenLeftSym /\ ts[2] \in OperandSyms
          /\ ts[3] = CommaSym /\ ts[4] \in OperandSyms /\ ts[5] = ParenRightSym
  THEN WrapPostfixes(PCall(c, <<AtomOf(ts[2]), AtomOf(ts[4])>>), SubSeq(ts, 6, Len(ts)))
  ELSE [ok |-> FALSE]

\* The tokens read are exactly `ts`.
Read(ts) == lexed = ts

\* C4: chain composition is left to right.  Every postfix `.name` or `(args)`
\* wraps the whole chain parsed so far: `a.b.c` yields
\* Property(Property(Identifier a, b), c), `a(1,2).b` yields
\* Property(Call(Identifier a, [1, 2]), b), and the innermost node of a chain
\* is its first literal or identifier.
C4_ChainLeftToRight ==
  (Done /\ yyresult = 0) =>
    /\ \A x \in IdentSyms, y \in IdentSyms, z \in IdentSyms :
         Read(<<x, DotSym, y, DotSym, z, TerminalSym, EofSym>>)
           => returned = PRoot(<< PProperty(PProperty(PIdentifier(x.value), y.value),
                                            z.value) >>)
    /\ \A x \in IdentSyms, y \in IdentSyms, i \in OperandSyms, j \in OperandSyms :
         Read(<<x, ParenLeftSym, i, CommaSym, j, ParenRightSym, DotSym, y,
                TerminalSym, EofSym>>)
           => returned = PRoot(<< PProperty(PCall(PIdentifier(x.value),
                                                  <<AtomOf(i), AtomOf(j)>>),
                                            y.value) >>)
    /\ ( /\ Len(lexed) >= 3
         /\ lexed[1] \in OperandSyms
         /\ lexed[Len(lexed) - 1] = TerminalSym
         /\ WrapPostfixes(AtomOf(lexed[1]), SubSeq(lexed, 2, Len(lexed) - 2)).ok )
       => /\ returned = PRoot(<< WrapPostfixes(AtomOf(lexed[1]),
                                               SubSeq(lexed, 2, Len(lexed) - 2)).node >>)
          /\ Innermost(returned.nodes[1]) = AtomOf(lexed[1])
    /\ \A n \in RootNodes(returned.nodes) :
         n.kind \in {"PCall", "PProperty"}
           => Innermost(n).kind \in {"PIdentifier", "PIntegerLiteral"}

C4_Witness ==
  /\ Done /\ yyresult = 0
  /\ Len(lexed) = 10
  /\ lexed[2] = ParenLeftSym /\ lexed[7] = DotSym
  /\ returned.nodes[1].kind = "PProperty"
  /\ returned.nodes[1].receiver.kind = "PCall"
  /\ Len(returned.nodes[1].receiver.arguments) = 2

\* C5: a call with an empty argument list is accepted.  Parsing `f()` and
\* `a.b()` succeeds and yields a Call whose argument sequence is empty and
\* whose target is the chain before the `(`.  The parser reads the input up to
\* the `)` at least.
C5_EmptyArgumentsAccepted ==
  Done =>
    /\ \A f \in IdentSyms :
         ( /\ Len(lexed) >= 3
           /\ \A i \in 1..Len(lexed) :
                lexed[i] = <<f, ParenLeftSym, ParenRightSym, TerminalSym, EofSym>>[i] )
         => /\ yyresult = 0
            /\ returned = PRoot(<< PCall(PIdentifier(f.value), <<>>) >>)
    /\ \A a \in IdentSyms, b \in IdentSyms :
         ( /\ Len(lexed) >= 5
           /\ \A i \in 1..Len(lexed) :
                lexed[i] = <<a, DotSym, b, ParenLeftSym, ParenRightSym, TerminalSym,
                             EofSym>>[i] )
         => /\ yyresult = 0
            /\ returned = PRoot(<< PCall(PProperty(PIdentifier(a.value), b.value),
                                         <<>>) >>)

\* C6: invalid assignment target.  Whenever the chain to the left of `=` is a
\* Call, building the Assignment ends the parse with the
\* invalid-assignment-target error, and no tree handed to the caller holds an
\* Assignment whose target is a Call.
C6_InvalidAssignmentTarget ==
  /\ [][(label = "yyreduce" /\ yyn = 15 /\ isCall(StackAt(yystack_, 2).value))
          => (label' = "exit" /\ err'.msg = "Cannot assign to result of a call")]_vars
  /\ []((Done /\ IsRoot(returned))
          => \A n \in RootNodes(returned.nodes) :
               n.kind = "PAssignment" => ~isCall(n.lhs))
  /\ [](\A i \in 1..Len(yystack_) :
          LET v == yystack_[i].value
          IN  (DOMAIN v = {"kind", "lhs", "rhs"} /\ v.kind = "PAssignment")
                => ~isCall(v.lhs))

C6_Witness ==
  /\ label = "exit"
  /\ err.msg = "Cannot assign to result of a call"
  /\ Len(lexed) = 7
  /\ lexed[2] = ParenLeftSym /\ lexed[4] = ParenRightSym /\ lexed[5] = EqualsSym

\* The input is a call left open at end-of-input: `f ( x` or `f ( x , y`.
UnterminatedCall ==
  \E f \in IdentSyms, i \in OperandSyms :
    \/ Read(<<f, ParenLeftSym, i, EofSym>>)
    \/ \E j \in OperandSyms : Read(<<f, ParenLeftSym, i, CommaSym, j, EofSym>>)

\* C7: an unterminated call followed by end-of-input ends the parse with one
\* unexpected-token error whose actual token is end-of-input and whose
\* expected token is `)`; the parse fails and builds no Root.
C7_UnterminatedCall ==
  UnterminatedCall =>
    /\ yyresult # 0
    /\ newRoots = <<>>
    /\ label \notin {"yyacceptlab", "exit"}
    /\ label \in {"yyerrlab1", "yyabortlab", "yyreturn", "Driver::parse_1", "done"}
         => errors = << [msg |-> "syntax error",
                         args |-> <<"end of file", "PAREN_RIGHT">>] >>
    /\ label \in {"yyreturn", "Driver::parse_1", "done"} => yyresult = 1

C7_Witness ==
  /\ Done
  /\ Len(lexed) = 6 /\ lexed[4] = CommaSym /\ lexed[6] = EofSym
  /\ lexed[2] = ParenLeftSym
  /\ yyresult = 1
  /\ Len(errors) = 1

\* C8: the caller receives a Root only when the whole token stream was parsed
\* without a grammar violation; after a violation it receives no Root at all:
\* not a partly built one, not an unset one, not the one of an earlier parse.
C8_RootOnlyOnSuccess ==
  (Done /\ yyresult # 0) => returned = Pointer("NULL")

-----------------------------------------------------------------------------
(* Properties of the root loop *)

\* The grammar of a statement, as for GrammarAddition:
\*   statement := ("let" | "var") IDENT "=" addition | addition
GrammarStatement(ts) ==
  IF ts # <<>> /\ ts[1] \in {LetTok, VarTok}
  THEN IF Len(ts) >= 4 /\ ts[2] \in IdentToks /\ ts[3] = EqualsTok
       THEN LET e == GrammarAddition(SubSeq(ts, 4, Len(ts)))
            IN  IF e.ok
                THEN [ok |-> TRUE,
                      node |-> IF ts[1] = LetTok THEN PLet(ts[2].text, e.node)
                                                 ELSE PVar(ts[2].text, e.node),
                      rest |-> e.rest]
                ELSE [ok |-> FALSE]
       ELSE [ok |-> FALSE]
  ELSE GrammarAddition(ts)

\* `ts` is one whole statement.
IsStatement(ts) ==
  ts # <<>> /\ GrammarStatement(ts).ok /\ GrammarStatement(ts).rest = <<>>

\* Every way to cut `ts` into whole statements, each as the sequence of the
\* statements' trees.
RECURSIVE Concatenations(_)
Concatenations(ts) ==
  IF ts = <<>>
  THEN {<<>>}
  ELSE UNION { { <<GrammarStatement(SubSeq(ts, 1, i)).node>> \o r :
                 r \in Concatenations(SubSeq(ts, i + 1, Len(ts))) } :
               i \in {j \in 1..Len(ts) : IsStatement(SubSeq(ts, 1, j))} }

\* An integer literal stands before `=` somewhere in `ts`.
HasIntegerTarget(ts) ==
  \E i \in 1..(Len(ts) - 1) : ts[i] \in IntToks /\ ts[i + 1] = EqualsTok

\* end-of-input has been read.
AtEof == lexed # <<>> /\ lexed[Len(lexed)] = EofTok

-----------------------------------------------------------------------------
(* Properties of call arguments *)

\* The tokens read so far are the first tokens of `ts`, `n` of them at least.
ReadInto(ts, n) ==
  /\ n <= Len(lexed) /\ Len(lexed) <= Len(ts)
  /\ \A i \in 1..Len(lexed) : lexed[i] = ts[i]

\* C12: call arguments are a comma-separated list with no trailing comma.  The
\* Call holds one node per argument in source order, each argument parsed by
\* the whole expression rule, so `f(a = 1, b + c)` yields the arguments
\* [Assignment(a, 1), Infix(b, Add, c)]; `f(1,)` fails.
C12_CallArguments ==
  Done =>
    /\ \A f \in IdentSyms, a \in IdentSyms, b \in IdentSyms, c \in IdentSyms,
          i \in IntSyms :
         Read(<<f, ParenLeftSym, a, EqualsSym, i, CommaSym, b, PlusSym, c,
                ParenRightSym, TerminalSym, EofSym>>)
           => /\ yyresult = 0
              /\ returned =
                   PRoot(<< PCall(PIdentifier(f.value),
                                  << PAssignment(PIdentifier(a.value), AtomOf(i)),
                                     PInfix(PIdentifier(b.value), "ADD",
                                            PIdentifier(c.value)) >>) >>)
    /\ \A f \in IdentSyms, i \in IntSyms :
         ReadInto(<<f, ParenLeftSym, i, CommaSym, ParenRightSym>>, 5)
           => yyresult = 1

\* `f(a = 1, b + c)` was parsed and its Call handed to the caller.
C12_Witness ==
  /\ Done /\ yyresult = 0
  /\ Len(lexed) = 12
  /\ lexed[4] = EqualsSym /\ lexed[8] = PlusSym
  /\ returned.nodes[1].kind = "PCall"
  /\ Len(returned.nodes[1].arguments) = 2

-----------------------------------------------------------------------------
(* Properties of debug serialization *)

-----------------------------------------------------------------------------
(* Properties of integer literals *)

\* The nodes the parser holds: those of the root and the one just returned.
HeldNodes == RootNodes(root) \cup SubNodes(retval)

\* C14: an integer literal token yields an IntegerLiteral whose value is the
\* decimal value of the lexeme as a 64-bit signed integer; a lexeme whose
\* value is outside that range yields no node, wrapped or truncated, but ends
\* the parse with a fatal error.
C14_IntegerLiteral ==
  /\ [][(pc = "parseLiteral" /\ token = "T_INTEGER")
          => LET t == lexed[Len(lexed)]
             IN  /\ t.kind = "T_INTEGER"
                 /\ IF FitsLongLong(StripZeros(t.text))
                    THEN pc' # "exit" /\ retval' = PIntegerLiteral(StripZeros(t.text))
                    ELSE pc' = "exit" /\ err'.msg = "std::out_of_range"
                         /\ root' = root /\ retval' = retval]_vars
  /\ [](\A n \in HeldNodes :
          n.kind = "PIntegerLiteral"
            => \E i \in 1..Len(lexed) :
                 /\ lexed[i].kind = "T_INTEGER"
                 /\ FitsLongLong(StripZeros(lexed[i].text))
                 /\ n.number = StripZeros(lexed[i].text))
  /\ []((Len(lexed) >= 4 /\ lexed[4] \in WideIntToks /\ pc = "parseAddition_1"
           /\ stack[Len(stack)].k = "parseLet_3")
          => /\ lexed[4].text \in {LLONG_MAX_DIGITS, <<"0">> \o LLONG_MAX_DIGITS}
             /\ retval = PIntegerLiteral(LLONG_MAX_DIGITS))

C14_Witness ==
  /\ pc = "exit"
  /\ err.msg = "std::out_of_range"
  /\ Len(lexed) = 6
  /\ lexed[4].text = <<"0">> \o LLONG_MAX_DIGITS
  /\ lexed[6].text = LLONG_MAX_DIGITS \o <<"0">>
  /\ \E i \in 1..Len(stack) : stack[i].lhs = PIntegerLiteral(LLONG_MAX_DIGITS)

-----------------------------------------------------------------------------
(* The look-ahead on its own: a client that calls Parser::next and
   Parser::peek in any order (src/src/Parser.cpp, lines 10-36). *)

\* The tokens the client's lexer returns: one token of each kind.
ClientAlphabet ==
  {Tok("T_IDENTIFIER", <<"a">>), Tok("T_INTEGER", <<"7">>), PlusTok, EqualsTok, EofTok}

ClientChoices(ts) == LexChoicesOf(ts, ClientAlphabet, {}, EofTok)

InitLookahead ==
  /\ LALRIdle
  /\ NoObservations
  /\ lexed = <<>>
  /\ peeking = FALSE
  /\ currentToken = "uninitialized"
  /\ currentText = 0
  /\ peekedToken = "uninitialized"
  /\ peekedText = 0
  /\ pc = "client"
  /\ stack = <<>>
  /\ token = "none"
  /\ lhs = NoNode
  /\ retval = NoNode
  /\ root = <<>>
  /\ err = NoErr

\* One call by the client, with what it returned, how many tokens it read
\* from the lexer, and the look-ahead fields before and after.
Observe(op, r) ==
  /\ calls' = Append(calls, [op |-> op, ret |-> r.ret,
                             read |-> Len(r.L.lexed) - Len(lexed),
                             currentBefore |-> currentToken,
                             currentAfter |-> r.L.currentToken,
                             buffered |-> r.L.peeking])
  /\ SetLA(r.L)
  /\ UNCHANGED <<pc, stack, token, lhs, retval, root, err, lalrvars, printed>>

ClientNext ==
  /\ pc = "client"
  /\ Len(calls) < MaxCalls
  /\ \E lx \in ClientChoices(lexed) : Observe("next", next(LA, lx))

ClientPeek ==
  /\ pc = "client"
  /\ Len(calls) < MaxCalls
  /\ \E lx \in ClientChoices(lexed) : Observe("peek", peek(LA, lx))

NextLookahead ==
  \/ ClientNext
  \/ ClientPeek

SpecLookahead == InitLookahead /\ [][NextLookahead]_vars

\* C15: peek() is idempotent.  Consecutive peek() calls with no next() between
\* them return the same token, read at most one token from the token source
\* in all, and leave the current token unchanged.
C15_PeekIdempotent ==
  \A i \in 1..Len(calls) :
    calls[i].op = "peek" =>
      /\ calls[i].read <= 1
      /\ calls[i].currentAfter = calls[i].currentBefore
      /\ calls[i].buffered
      /\ (i > 1 /\ calls[i - 1].op = "peek")
           => /\ calls[i].ret = calls[i - 1].ret
              /\ calls[i].read = 0

C15_Witness ==
  /\ Len(calls) = 5
  /\ calls[1].op = "next" /\ calls[2].op = "peek" /\ calls[3].op = "peek"
  /\ calls[4].op = "peek" /\ calls[5].op = "next"
  /\ calls[2].ret = "T_PLUS" /\ calls[4].ret = "T_PLUS"
  /\ Len(lexed) = 2

\* The next() calls among the client's calls.
NextCalls == SelectSeq(calls, LAMBDA c : c.op = "next")

\* C16: for any interleaving of peek() and next(), the tokens next() returns
\* are the token source's sequence in order, none skipped and none delivered
\* twice; a next() after a peek() returns the token peek() returned and
\* empties the buffer.
C16_NextSequence ==
  /\ \A i \in 1..Len(NextCalls) : NextCalls[i].ret = lexed[i].kind
  /\ Len(lexed) = Len(NextCalls) + (IF peeking THEN 1 ELSE 0)
  /\ \A i \in 1..Len(calls) :
       calls[i].op = "next" =>
         /\ ~calls[i].buffered
         /\ calls[i].currentAfter = calls[i].ret
         /\ (i > 1 /\ calls[i - 1].op = "peek")
              => calls[i].ret = calls[i - 1].ret /\ calls[i].read = 0
         /\ (i = 1 \/ calls[i - 1].op = "next") => calls[i].read = 1

C16_Witness ==
  /\ Len(calls) = 5
  /\ calls[1].op = "peek" /\ calls[2].op = "next" /\ calls[3].op = "next"
  /\ calls[4].op = "peek" /\ calls[5].op = "next"
  /\ Len(lexed) = 3
  /\ lexed[1].kind = "T_IDENTIFIER" /\ lexed[2].kind = "T_EQUALS"
  /\ lexed[3].kind = "T_INTEGER"

-----------------------------------------------------------------------------
(* Properties of error handling *)

\* The diagnostics written so far: those of yy::parser::error and the one of
\* a constructor that exits.
Diagnostics == Len(errors) + (IF err = NoErr THEN 0 ELSE 1)

\* `s` is the first part of `t`.
IsPrefix(s, t) == Len(s) <= Len(t) /\ \A i \in 1..Len(s) : s[i] = t[i]

\* C17: no error recovery.  After the first grammar violation is detected the
\* parser reads no further token, builds no further node and reports no
\* second diagnostic; a failed parse reports exactly one diagnostic.
C17_NoErrorRecovery ==
  /\ [][Diagnostics > 0
          => /\ lexed' = lexed
             /\ errors' = errors /\ err' = err
             /\ IsPrefix(yystack_', yystack_)
             /\ newRoots' = newRoots /\ driverRoot' = driverRoot
             /\ label' \notin {"yynewstate", "yybackup", "yydefault", "yyreduce",
                               "yyacceptlab"}]_vars
  /\ [](Diagnostics <= 1)
  /\ []((label = "exit" \/ (Done /\ yyresult # 0)) => Diagnostics = 1)
  /\ []((Done /\ yyresult = 0) => Diagnostics = 0)

C17_Witness ==
  /\ Done
  /\ yyresult = 1
  /\ Len(errors) = 1
  /\ Len(lexed) = 5
  /\ lexed[4] = CommaSym /\ lexed[5] = ParenRightSym

-----------------------------------------------------------------------------
(* Properties of the diagnostics of the recursive-descent parser (Spec) *)

\* The places of parseLet/parseVar that require one specific token kind.
Requires(kind) ==
  CASE kind = "T_IDENTIFIER" -> {"parseLet", "parseVar"}
    [] kind = "T_EQUALS" -> {"parseLet_1", "parseVar_1"}

\* C18: where parseLet/parseVar require an identifier (after `let`/`var`) or
\* `=` (after the bound name), the parser reads exactly one more token; if it
\* has the required kind the parse goes on without a diagnostic, and otherwise
\* the parse ends with "Unexpected token" carrying the expected kind, the kind
\* read and the line of that token, and neither the root nor any node under
\* construction changes, so no Let/Var is built for the statement.
C18_UnexpectedToken ==
  [][\A want \in {"T_IDENTIFIER", "T_EQUALS"} :
       pc \in Requires(want) =>
         LET n == Len(lexed')
             got == lexed'[n].kind
         IN  /\ n = Len(lexed) + 1
             /\ IF got = want
                THEN pc' # "exit" /\ err' = NoErr
                ELSE /\ pc' = "exit"
                     /\ err' = [msg |-> "Unexpected token", expected |-> want,
                                got |-> got, line |-> n]
                     /\ root' = root
                     /\ retval' = retval
                     /\ stack' = stack]_vars

\* `var a` followed by the end of input: `=` was required on line 3.
C18_Witness ==
  /\ pc = "exit"
  /\ Len(lexed) = 3
  /\ lexed[1].kind = "T_VAR"
  /\ lexed[2].kind = "T_IDENTIFIER"
  /\ err = [msg |-> "Unexpected token", expected |-> "T_EQUALS",
            got |-> "T_EOF", line |-> 3]
  /\ root = <<>>

\* The way of a token through the functions that need an operand, down to the
\* end of the process.
OperandChain ==
  <<"parseStatement", "parseExpression", "parseAddition", "parseMultiplication",
    "parseLiteral", "parseAssignment", "parseIdentifier", "exit">>

Rank(l) == CHOOSE i \in 1..Len(OperandChain) : OperandChain[i] = l

InChain(l) == \E i \in 1..Len(OperandChain) : OperandChain[i] = l

IsOperandKind(t) == t \in {"T_INTEGER", "T_IDENTIFIER"}

\* The places that read the token an operand must start with: after `+`, `*`,
\* `=`, and after the `=` of let/var.
OperandReads ==
  {"parseAddition_2", "parseMultiplication_2", "parseAssignment_2",
   "parseLet_2", "parseVar_2"}

\* An operand is required and the token in hand cannot start one.
OperandMissing ==
  \/ pc = "parseStatement" /\ token \notin {"T_INTEGER", "T_IDENTIFIER", "T_LET", "T_VAR"}
  \/ /\ pc \in {"parseExpression", "parseAddition", "parseMultiplication",
                "parseLiteral", "parseAssignment", "parseIdentifier"}
     /\ ~IsOperandKind(token)

LastLexed(ts) == ts[Len(ts)].kind

\* C19: the token handed to a place that needs an operand (the start of an
\* expression statement, after `+`, `*`, `=`) is the token the lexer read last;
\* if it is neither an integer literal nor an identifier, the parser reads no
\* further token, builds nothing, and goes straight down to parseIdentifier,
\* where the process ends with "Unrecognized token" carrying the kind of that
\* token and its line.  No other place reports "Unrecognized token".
C19_UnrecognizedToken ==
  /\ [](err.msg = "Unrecognized token"
          => /\ pc = "exit"
             /\ ~IsOperandKind(err.got)
             /\ err.got = LastLexed(lexed)
             /\ err.line = Len(lexed))
  /\ [][/\ pc \in OperandReads
             => /\ pc' \in {"parseExpression", "parseAddition", "parseMultiplication"}
                /\ token' = LastLexed(lexed')
        /\ pc = "parseRoot"
             => \/ pc' = "returned" /\ LastLexed(lexed') = "T_EOF"
                \/ pc' = "parseStatement" /\ token' = LastLexed(lexed') /\ token' # "T_EOF"
        /\ OperandMissing
             => /\ token = LastLexed(lexed)
                /\ lexed' = lexed
                /\ root' = root
                /\ token' = token
                /\ InChain(pc')
                /\ Rank(pc') > Rank(pc)
                /\ pc' = "exit"
                     => err' = [msg |-> "Unrecognized token", got |-> token,
                                line |-> Len(lexed)]]_vars

\* `a +` followed by the end of input: the operand of `+` is missing on line 3.
C19_Witness ==
  /\ pc = "exit"
  /\ Len(lexed) = 3
  /\ lexed[1].kind = "T_IDENTIFIER"
  /\ lexed[2].kind = "T_PLUS"
  /\ err = [msg |-> "Unrecognized token", got |-> "T_EOF", line |-> 3]

-----------------------------------------------------------------------------
(* Integer literals as assignment targets, on the recursive-descent parser *)

\* The node an integer token stands for.
LiteralOf(tok) == PIntegerLiteral(stoll(tok.text).value)

KindsAt(i, kinds) ==
  /\ Len(lexed) >= i + Len(kinds) - 1
  /\ \A k \in 1..Len(kinds) : lexed[i + k - 1].kind = kinds[k]

\* C20: an integer literal followed by `=` is the target of an assignment.
\* For an input that begins `<int> =` the parse does not fail before the token
\* after the `=`, and the first statement is an Assignment whose target is the
\* IntegerLiteral; for an input that begins `<ident> * <int> =` likewise, the
\* Assignment being the right operand of the multiplication.
C20_IntegerTarget ==
  /\ KindsAt(1, <<"T_INTEGER", "T_EQUALS">>)
       => /\ pc = "exit" => err.line >= 3
          /\ root # <<>>
               => /\ root[1].kind = "PAssignment"
                  /\ root[1].lhs = LiteralOf(lexed[1])
  /\ KindsAt(1, <<"T_IDENTIFIER", "T_STAR", "T_INTEGER", "T_EQUALS">>)
       => /\ pc = "exit" => err.line >= 5
          /\ root # <<>>
               => /\ root[1].kind = "PInfix"
                  /\ root[1].op = "MULTIPLY"
                  /\ root[1].rhs.kind = "PAssignment"
                  /\ root[1].rhs.lhs = LiteralOf(lexed[3])

\* `7 =`: the literal became a statement of its own and the `=` on line 2 is
\* refused at the start of the next statement.
C20_Witness ==
  /\ pc = "exit"
  /\ KindsAt(1, <<"T_INTEGER", "T_EQUALS">>)
  /\ Len(lexed) = 2
  /\ root = <<LiteralOf(lexed[1])>>
  /\ err = [msg |-> "Unrecognized token", got |-> "T_EQUALS", line |-> 2]

-----------------------------------------------------------------------------
(* Shape of the operator trees of the recursive-descent parser *)

IsInfix(n, op) == n.kind = "PInfix" /\ n.op = op

\* The nodes below `n` that are not inside the value of an Assignment.
RECURSIVE Bare(_)
Bare(n) ==
  {n} \cup
    CASE n.kind = "PInfix" -> Bare(n.lhs) \cup Bare(n.rhs)
      [] n.kind = "PAssignment" -> Bare(n.lhs)
      [] OTHER -> {}

\* C28: in every tree the parser holds, and so in every tree it returns, the
\* left operand of a multiplication is no Infix, the right operand of a
\* multiplication is no addition, the left operand of an addition is no
\* addition, and an addition below a multiplication lies inside the value of
\* an Assignment.
C28_OperatorNesting ==
  \A n \in HeldNodes :
    /\ IsInfix(n, "MULTIPLY")
         => /\ n.lhs.kind # "PInfix"
            /\ ~IsInfix(n.rhs, "ADD")
            /\ \A d \in Bare(n.lhs) \cup Bare(n.rhs) : ~IsInfix(d, "ADD")
    /\ IsInfix(n, "ADD") => ~IsInfix(n.lhs, "ADD")

\* `a * b = 7 + 7` was returned: the addition is the value of the Assignment
\* that is the right operand of the multiplication.
C28_Witness ==
  /\ Returned
  /\ Len(root) = 1
  /\ IsInfix(root[1], "MULTIPLY")
  /\ root[1].rhs.kind = "PAssignment"
  /\ IsInfix(root[1].rhs.rhs, "ADD")

-----------------------------------------------------------------------------
(* Reading up to the end of the input, on the recursive-descent parser *)

\* The number of tokens the statements of a root were built from.
RECURSIVE TokensOf(_)
TokensOf(r) == IF r = <<>> THEN 0 ELSE Size(r[1]) + TokensOf(SubSeq(r, 2, Len(r)))

\* C27: the lexer is asked for the end of input at most once: no token is
\* read after it.  When parse returns, the end of input is the last token
\* read, no peeked token is left in the buffer, and the statements of the root
\* were built from exactly the tokens before the end of input, each used once.
C27_NoReadPastEof ==
  /\ \A i \in 1..Len(lexed) : lexed[i] = EofTok => i = Len(lexed)
  /\ Returned
       => /\ AtEof
          /\ ~peeking
          /\ TokensOf(root) = Len(lexed) - 1

\* `a + b` was returned: the end of input was met by peek() after `b` and
\* taken from the buffer by the next() of the statement loop.
C27_Witness ==
  /\ Returned
  /\ Len(lexed) = 4
  /\ lexed[2] = PlusTok
  /\ peekedToken = "T_EOF"
  /\ currentToken = "T_EOF"
  /\ ~peeking

-----------------------------------------------------------------------------
(* The lexeme read by text(), on the recursive-descent parser *)

\* The token the lexer read last.
Last(ts) == ts[Len(ts)]

\* C26: wherever a rule reads text(), no peeked token is buffered and the
\* string read is the lexeme of the token next() returned last, which is the
\* token the lexer read last.  parseLiteral and parseIdentifier build their
\* node from the lexeme of the token they were given; parseLet and parseVar
\* take as name the lexeme of the identifier expect() just returned.
C26_LexemeConsistency ==
  [][/\ \/ pc = "parseLiteral" /\ token = "T_INTEGER"
        \/ pc = "parseIdentifier" /\ token = "T_IDENTIFIER"
        => /\ ~peeking
           /\ currentToken = token
           /\ Last(lexed).kind = token
           /\ text(LA) = {Last(lexed).text}
           /\ pc' # "exit" => retval' = Operand(Last(lexed))
     /\ pc \in {"parseLet", "parseVar"} /\ pc' # "exit"
        => /\ ~peeking'
           /\ currentToken' = "T_IDENTIFIER"
           /\ Last(lexed').kind = "T_IDENTIFIER"
           /\ lhs' = StringLocal(Last(lexed').text)]_vars

\* `a b` was returned: `b` was peeked after `a`, handed out from the buffer by
\* next(), and its lexeme was read after that.
C26_Witness ==
  /\ Returned
  /\ Len(lexed) = 3
  /\ root = <<PIdentifier(<<"a">>), PIdentifier(<<"b">>)>>
  /\ currentText = 3

-----------------------------------------------------------------------------
(* Termination of the recursive-descent parser.  The parser is one sequential
   thread: while a step is possible, it is taken. *)

SpecLive == Spec /\ WF_vars(Next)

\* The number of tokens next() has handed out.
Consumed == Len(lexed) - (IF peeking THEN 1 ELSE 0)

\* parse() is over: it returned the root or the process ended.
Terminated == pc \in {"returned", "exit"}

\* C23: every parse terminates: it returns a root or ends with a fatal error.
\* Every turn of the statement loop and every descent into an operand starts
\* with a token handed out by next(), and no token is read after the end of
\* the parse.
C23_Termination ==
  /\ <>Terminated
  /\ [][/\ pc \in {"parseRoot"} \cup OperandReads => Consumed' = Consumed + 1
        /\ Terminated => lexed' = lexed /\ pc' = pc]_vars

\* Three statements were parsed, one per turn of the loop, and the root was
\* returned at the end of the input.
C23_Witness ==
  /\ Returned
  /\ AtEof
  /\ Len(root) = 3

-----------------------------------------------------------------------------
(* Layout of the debug serialization of Nodes.cpp, on the roots the generated
   parser hands to main *)

\* The indentation levels of the lines of a node serialized at level n, line
\* by line: opening line and closing `)` at n, child nodes and inline fields
\* at n + 1.  An Identifier or an integer is one line.
RECURSIVE Levels(_, _)
Levels(node, n) ==
  LET RECURSIVE Each(_)
      Each(ns) == IF ns = <<>> THEN <<>> ELSE Levels(Head(ns), n + 1) \o Each(Tail(ns))
  IN  CASE node.kind \in {"PLet", "PVar"} ->
             <<n, n + 1>> \o Levels(node.rhs, n + 1) \o <<n>>
        [] node.kind \in {"PAssignment", "PInfix"} ->
             <<n>> \o Levels(node.lhs, n + 1) \o <<n + 1>>
               \o Levels(node.rhs, n + 1) \o <<n>>
        [] node.kind = "PCall" ->
             <<n>> \o Levels(node.target, n + 1) \o Each(node.arguments) \o <<n>>
        [] node.kind = "PProperty" ->
             <<n>> \o Levels(node.receiver, n + 1) \o <<n + 1, n>>
        [] OTHER -> <<n>>

RECURSIVE StatementLevels(_, _)
StatementLevels(nodes, n) ==
  IF nodes = <<>> THEN <<>>
  ELSE Levels(Head(nodes), n) \o StatementLevels(Tail(nodes), n)

\* main serialized the root it received.
Serialized == label \in {"main_delete", "exited"} /\ printed # <<>>

-----------------------------------------------------------------------------
(* Dispatch of the debug serialization, on the trees of both parsers *)

\* Either parser runs, and the root it returns is serialized by its caller.
InitBoth == Init \/ InitLALR

NextBoth == Next \/ NextLALR

SpecBoth == InitBoth /\ [][NextBoth]_vars

\* The recursive-descent parser ran (and not the generated one).
Handwritten == label = "idle"

\* The statements of the root that was serialized.
PrintedNodes == IF Handwritten THEN root ELSE returned.nodes

\* PNode::debugPrint of the parser that ran.
Serialize(node, indent) ==
  IF Handwritten THEN debugPrint(node, indent) ELSE Nodes_debugPrint(node, indent)

\* The first piece of the text each variant writes.
Opening(kind) ==
  CASE kind = "PLet" -> "let("
    [] kind = "PVar" -> "var("
    [] kind = "PAssignment" -> "assignment("
    [] kind = "PInfix" -> "infix("
    [] kind = "PCall" -> "call("
    [] kind = "PProperty" -> "property("
    [] kind = "PIdentifier" -> "identifier("
    [] kind = "PIntegerLiteral" -> IF Handwritten THEN "integerLiteral(" ELSE "integer("

Variants ==
  {"PLet", "PVar", "PAssignment", "PInfix", "PCall", "PProperty", "PIdentifier",
   "PIntegerLiteral"}

\* The number of nodes of a tree, and of a sequence of trees.
RECURSIVE NodeCount(_), NodeCountAll(_)
NodeCount(n) ==
  1 + CASE n.kind \in {"PLet", "PVar"} -> NodeCount(n.rhs)
        [] n.kind \in {"PAssignment", "PInfix"} -> NodeCount(n.lhs) + NodeCount(n.rhs)
        [] n.kind = "PCall" -> NodeCount(n.target) + NodeCountAll(n.arguments)
        [] n.kind = "PProperty" -> NodeCount(n.receiver)
        [] OTHER -> 0

NodeCountAll(ns) == IF ns = <<>> THEN 0 ELSE NodeCount(Head(ns)) + NodeCountAll(Tail(ns))

\* The lines of an output that open a node.
OpeningLines(out) ==
  {k \in 1..Len(out) : \E kind \in Variants : out[k].text[1] = Opening(kind)}

\* C25: every node of a serialized tree is one of the eight variants, its
\* serialization is not empty and starts with the text of its variant, and the
\* output of the root holds one opening line for every node of the tree: no
\* node is left out.
C25_DispatchExhaustive ==
  printed # <<>> =>
    /\ \A n \in RootNodes(PrintedNodes) :
         /\ n.kind \in Variants
         /\ Serialize(n, 0) # <<>>
         /\ Serialize(n, 0)[1].text[1] = Opening(n.kind)
    /\ \A i \in 1..Len(printed) :
         Cardinality(OpeningLines(printed[i].output)) = NodeCountAll(PrintedNodes)

\* The generated parser's root with a call of two arguments inside a
\* property was serialized, five nodes in all.
C25_Witness ==
  /\ ~Handwritten
  /\ printed # <<>>
  /\ returned.nodes[1].kind = "PProperty"
  /\ returned.nodes[1].receiver.kind = "PCall"
  /\ Len(returned.nodes[1].receiver.arguments) = 2
  /\ Cardinality(OpeningLines(printed[1].output)) = 5

-----------------------------------------------------------------------------
(* Ownership of the nodes of the generated parser *)

Addresses == 1..Len(memory.cells)

\* The places that hold a pointer to the node at `a`: a member of another
\* node, a semantic value on the parser's stack, or the vector of the root.
Slots(tag, at, ptrs, a) == {<<tag, at, i>> : i \in {i \in 1..Len(ptrs) : ptrs[i] = a}}

Holders(a) ==
  UNION {Slots(1, c, memory.cells[c].kids, a) : c \in Addresses}
    \cup UNION {Slots(2, h, memory.held[h], a) : h \in 1..Len(memory.held)}
    \cup Slots(3, 0, memory.root, a)

\* The nodes reachable from the nodes of S through at most n pointers.
RECURSIVE Reach(_, _)
Reach(S, n) ==
  IF n = 0 THEN S
  ELSE Reach(S \cup UNION {{memory.cells[c].kids[i] : i \in 1..Len(memory.cells[c].kids)}
                           : c \in S}, n - 1)

\* The nodes below the node at `a`.
Below(a) ==
  Reach({memory.cells[a].kids[i] : i \in 1..Len(memory.cells[a].kids)}, Len(memory.cells))

\* The child nodes of a node, in the order of its members.
ChildNodes(n) ==
  CASE n.kind \in {"PLet", "PVar"} -> <<n.rhs>>
    [] n.kind \in {"PAssignment", "PInfix"} -> <<n.lhs, n.rhs>>
    [] n.kind = "PCall" -> <<n.target>> \o n.arguments
    [] n.kind = "PProperty" -> <<n.receiver>>
    [] OTHER -> <<>>

NodesAt(ptrs) == [i \in 1..Len(ptrs) |-> memory.cells[ptrs[i]].node]

\* C21: the nodes form a tree.  In every state, while parsing and after, every
\* node is pointed to from at most one place (a member of one parent, one
\* semantic value of the parser, or the root's vector), every pointer refers to
\* a node that exists, the members of a node point to its children, and no
\* node is below itself.  The nodes of a returned root are exactly the nodes
\* reachable from the root's vector.
C21_OwnershipTree ==
  /\ \A a \in Addresses :
       /\ Cardinality(Holders(a)) <= 1
       /\ a \notin Below(a)
       /\ \A i \in 1..Len(memory.cells[a].kids) : memory.cells[a].kids[i] \in Addresses
       /\ NodesAt(memory.cells[a].kids) = ChildNodes(memory.cells[a].node)
  /\ \A h \in 1..Len(memory.held) :
       \A i \in 1..Len(memory.held[h]) : memory.held[h][i] \in Addresses
  /\ \A i \in 1..Len(memory.root) : memory.root[i] \in Addresses
  /\ Done /\ IsRoot(returned)
       => /\ NodesAt(memory.root) = returned.nodes
          /\ {memory.cells[a].node : a \in Reach({memory.root[i] : i \in 1..Len(memory.root)},
                                                 Len(memory.cells))}
               = RootNodes(returned.nodes)

\* `a.b(..., ...).c`-like statement returned: the Property at the root's
\* vector owns a Call that owns its target and its two arguments.
C21_Witness ==
  /\ Done /\ yyresult = 0
  /\ IsRoot(returned)
  /\ Len(memory.root) = 1
  /\ memory.cells[memory.root[1]].node.kind = "PProperty"
  /\ Cardinality(Reach({memory.root[1]}, Len(memory.cells))) = 5
  /\ \E a \in Addresses : Len(memory.cells[a].kids) = 3

-----------------------------------------------------------------------------
(* Release of the nodes with their root, by main *)

\* main printed the root it received and deleted it.
RootDestroyed == label = "exited" /\ printed # <<>>

\* The nodes of the destroyed root: its statements and all their descendants.
TreeNodes == Reach({memory.root[i] : i \in 1..Len(memory.root)}, Len(memory.cells))

\* C22: once main has destroyed the root, every node of its tree, the
\* statements and all their descendants, has been deleted exactly once.
C22_ReleasedWithRoot ==
  RootDestroyed => \A a \in TreeNodes : memory.cells[a].deleted = 1

\* The root was destroyed: its statement was deleted once, and a node below
\* the statement was never deleted.
C22_Witness ==
  /\ RootDestroyed
  /\ yyresult = 0
  /\ \A i \in 1..Len(memory.root) : memory.cells[memory.root[i]].deleted = 1
  /\ \E a \in TreeNodes : memory.cells[a].deleted = 0

====
